---- MODULE Spec2Model ----
(***************************************************************************)
(* Model of the fantasypl_mcp analytics core: team and player form,       *)
(* fixture difficulty, bogey / favored teams, transfer suggestions and    *)
(* differentials, computed over a store snapshot (teams, players,         *)
(* fixtures, player_history).                                             *)
(*                                                                         *)
(* Numbers.  A nullable column holds <<>> (SQL NULL / Python None) or     *)
(* <<v>>.  Ratings and difficulties are kept in hundredths (the code      *)
(* rounds them to two decimals), Float columns with one decimal (form,    *)
(* ownership, expected goals) in tenths.  Arithmetic is exact rational    *)
(* arithmetic; the code's binary floating point differs from it by far    *)
(* less than the resolution any comparison below depends on.              *)
(***************************************************************************)
EXTENDS Integers, Sequences, FiniteSets, TLC

VARIABLES
  teams, players, fixtures, history,  \* the store snapshot
  op, args,                           \* the last call and its arguments
  fetched,                            \* the rows the store returned to it
  ret                                 \* its result

vars == <<teams, players, fixtures, history, op, args, fetched, ret>>
store == <<teams, players, fixtures, history>>

(***************************************************************************)
(* Bounds of the model.                                                    *)
(***************************************************************************)
MaxFixtures == 2
MaxHistory == 2
MaxLimit == 2
MaxTrendGames == 4
MaxRatingGames == 4
MaxSwingFixtures == 4

(***************************************************************************)
(* Nullable values and small helpers.                                      *)
(***************************************************************************)
None == <<>>
Some(v) == <<v>>
IsNone(x) == x = <<>>
Val(x) == x[1]
\* Python `x or d` on an Optional[int]: None and 0 are both falsy.
OrDefault(x, d) == IF x = <<>> THEN d ELSE IF x[1] = 0 THEN d ELSE x[1]
OrZero(x) == OrDefault(x, 0)
Opt(S) == {None} \cup {Some(v) : v \in S}

Min(a, b) == IF a <= b THEN a ELSE b
Max(a, b) == IF a >= b THEN a ELSE b

RECURSIVE SumSeq(_)
SumSeq(s) == IF s = <<>> THEN 0 ELSE Head(s) + SumSeq(Tail(s))

\* Python slices s[:k] and s[k:].
Take(s, k) == SubSeq(s, 1, Min(Max(k, 0), Len(s)))
Drop(s, k) == SubSeq(s, Min(Max(k, 0), Len(s)) + 1, Len(s))

\* round(num/den * 100): Python's round(x, 2) of the exact quotient, in
\* hundredths; ties go to the even hundredth.  den > 0.
RoundHundredths(num, den) ==
  LET q == (100 * num) \div den
      r == (100 * num) % den
  IN  IF 2 * r < den THEN q
      ELSE IF 2 * r > den THEN q + 1
      ELSE IF q % 2 = 0 THEN q ELSE q + 1

(***************************************************************************)
(* The store's answer to SELECT ... ORDER BY key [DESC] LIMIT n: the rows  *)
(* in key order, rows of equal key in an order the store chooses.  `ids`   *)
(* is the set of matching row ids, Key(id) the sort key.                   *)
(***************************************************************************)
RECURSIVE Perms(_)
Perms(S) ==
  IF S = {} THEN {<<>>}
  ELSE UNION {{<<x>> \o f : f \in Perms(S \ {x})} : x \in S}

OrderByDesc(ids, Key(_)) ==
  {f \in Perms(ids) : \A i \in 1..(Len(f) - 1) : Key(f[i]) >= Key(f[i + 1])}

OrderByAsc(ids, Key(_)) ==
  {f \in Perms(ids) : \A i \in 1..(Len(f) - 1) : Key(f[i]) <= Key(f[i + 1])}

Limit(rows, n) == Take(rows, n)

NoneResult == [kind |-> "None"]
ListResult(items) == [kind |-> "list", items |-> items]

\* Python's list.sort: stable; Before(a, b) holds when a's key sorts strictly
\* before b's.  Elements of equal key keep their order.
StableSort(s, Before(_, _)) ==
  LET Rank(i) ==
        1 + Cardinality({j \in 1..Len(s) :
                           /\ j # i
                           /\ \/ Before(s[j], s[i])
                              \/ (~Before(s[i], s[j]) /\ j < i)})
  IN  [k \in 1..Len(s) |-> s[CHOOSE i \in 1..Len(s) : Rank(i) = k]]

(***************************************************************************)
(* Store contents.  Row ids are the indices of the sequences `fixtures`    *)
(* and `history`; `teams` and `players` are functions from id to row.      *)
(***************************************************************************)
TeamIds == {1, 2, 3}
PlayerIds == {1, 2}
\* Identifiers a caller may pass: those of the store and one that resolves
\* to nothing.
QueryTeamIds == TeamIds \cup {4}
QueryPlayerIds == PlayerIds \cup {3}

FixtureIds == DOMAIN fixtures
HistoryIds == DOMAIN history
TeamExists(team_id) == team_id \in DOMAIN teams
PlayerExists(player_id) == player_id \in DOMAIN players

(***************************************************************************)
(* calculate_team_form (analytics/form.py).                                *)
(***************************************************************************)
\* The loop body without the skip of form.py lines 97-98: a missing score
\* is read as 0.
TeamFormStepMissingAsZero(acc, fid, team_id) ==
  LET fixture == fixtures[fid]
      is_home == fixture.team_h = team_id
      ts == OrZero(IF is_home THEN fixture.team_h_score ELSE fixture.team_a_score)
      os == OrZero(IF is_home THEN fixture.team_a_score ELSE fixture.team_h_score)
      opp_id == IF is_home THEN fixture.team_a ELSE fixture.team_h
      result == IF ts > os THEN "W" ELSE IF ts = os THEN "D" ELSE "L"
      match_points == IF ts > os THEN 3 ELSE IF ts = os THEN 1 ELSE 0
  IN  [wins |-> acc.wins + (IF ts > os THEN 1 ELSE 0),
       draws |-> acc.draws + (IF ts = os THEN 1 ELSE 0),
       losses |-> acc.losses + (IF ts < os THEN 1 ELSE 0),
       goals_scored |-> acc.goals_scored + ts,
       goals_conceded |-> acc.goals_conceded + os,
       clean_sheets |-> acc.clean_sheets + (IF os = 0 THEN 1 ELSE 0),
       points_progression |-> Append(acc.points_progression, match_points),
       recent_results |-> Append(acc.recent_results,
          [fixture_id |-> fid, opponent_id |-> opp_id, home |-> is_home,
           team_score |-> ts, opp_score |-> os,
           result |-> result, points |-> match_points])]

\* The loop body over one selected fixture: form.py lines 91-128.
TeamFormStep(acc, fid, team_id) ==
  LET fixture == fixtures[fid]
      is_home == fixture.team_h = team_id
      team_score == IF is_home THEN fixture.team_h_score ELSE fixture.team_a_score
      opp_score == IF is_home THEN fixture.team_a_score ELSE fixture.team_h_score
      opp_id == IF is_home THEN fixture.team_a ELSE fixture.team_h
  IN  IF IsNone(team_score) \/ IsNone(opp_score) THEN acc
      ELSE
        LET ts == Val(team_score)
            os == Val(opp_score)
            result == IF ts > os THEN "W" ELSE IF ts = os THEN "D" ELSE "L"
            match_points == IF ts > os THEN 3 ELSE IF ts = os THEN 1 ELSE 0
        IN  [wins |-> acc.wins + (IF ts > os THEN 1 ELSE 0),
             draws |-> acc.draws + (IF ts = os THEN 1 ELSE 0),
             losses |-> acc.losses + (IF ts < os THEN 1 ELSE 0),
             goals_scored |-> acc.goals_scored + ts,
             goals_conceded |-> acc.goals_conceded + os,
             clean_sheets |-> acc.clean_sheets + (IF os = 0 THEN 1 ELSE 0),
             points_progression |-> Append(acc.points_progression, match_points),
             recent_results |-> Append(acc.recent_results,
                [fixture_id |-> fid, opponent_id |-> opp_id, home |-> is_home,
                 team_score |-> ts, opp_score |-> os,
                 result |-> result, points |-> match_points])]

RECURSIVE TeamFormLoop(_, _, _)
TeamFormLoop(acc, rows, team_id) ==
  IF rows = <<>> THEN acc
  ELSE TeamFormLoop(TeamFormStep(acc, Head(rows), team_id), Tail(rows), team_id)

TeamFormAcc0 ==
  [wins |-> 0, draws |-> 0, losses |-> 0, goals_scored |-> 0, goals_conceded |-> 0,
   clean_sheets |-> 0, points_progression |-> <<>>, recent_results |-> <<>>]

\* The rating without its upper cap (form.py line 139 without min(10, ...)).
TeamFormRatingUncapped(total_points, goals_scored, goals_conceded, games_played) ==
  LET num == 14 * total_points + 9 * goals_scored - 3 * goals_conceded
      den == 6 * games_played
  IN  RoundHundredths(Max(0, num), den)

\* form.py lines 136-140, in hundredths:
\* (ppg/3)*7 + (gs/gp)*1.5 - (gc/gp)*0.5 = (14*points + 9*gs - 3*gc) / (6*gp).
TeamFormRating(total_points, goals_scored, goals_conceded, games_played) ==
  LET num == 14 * total_points + 9 * goals_scored - 3 * goals_conceded
      den == 6 * games_played
      capped == Min(10 * den, num)
      floored == Max(0, capped)
  IN  RoundHundredths(floored, den)

\* form.py lines 142-153 with both comparisons inclusive (>= in place of >).
TeamTrendInclusive(points_progression) ==
  IF Len(points_progression) >= 3
  THEN LET half == Len(points_progression) \div 2
           first_half == SumSeq(Drop(points_progression, half))
           second_half == SumSeq(Take(points_progression, half))
       IN  IF second_half >= first_half + 2 THEN "improving"
           ELSE IF first_half >= second_half + 2 THEN "declining"
           ELSE "stable"
  ELSE "stable"

\* form.py lines 142-153.
TeamTrend(points_progression) ==
  IF Len(points_progression) >= 3
  THEN LET half == Len(points_progression) \div 2
           first_half == SumSeq(Drop(points_progression, half))
           second_half == SumSeq(Take(points_progression, half))
       IN  IF second_half > first_half + 2 THEN "improving"
           ELSE IF first_half > second_half + 2 THEN "declining"
           ELSE "stable"
  ELSE "stable"

\* The finished fixtures of the team: the WHERE clause of form.py lines 71-76.
FinishedFixturesOf(team_id) ==
  {fid \in FixtureIds :
     /\ fixtures[fid].finished
     /\ (fixtures[fid].team_h = team_id \/ fixtures[fid].team_a = team_id)}

KickoffTime(fid) == fixtures[fid].kickoff_time

\* The rows the store may return for form.py lines 69-80.
TeamFormRows(team_id, last_n_games) ==
  {Limit(f, last_n_games) : f \in OrderByDesc(FinishedFixturesOf(team_id), KickoffTime)}

\* calculate_team_form without the games_played = 0 exit (form.py lines
\* 133-134): a zero-filled record comes back when no selected fixture counts.
calculate_team_form_zero_filled(team_id, rows) ==
  IF ~TeamExists(team_id) THEN NoneResult
  ELSE IF rows = <<>> THEN NoneResult
  ELSE
    LET acc == TeamFormLoop(TeamFormAcc0, rows, team_id)
        total_points == acc.wins * 3 + acc.draws
        games_played == acc.wins + acc.draws + acc.losses
    IN  [kind |-> "TeamFormAnalysis",
         team_id |-> team_id,
         last_n_games |-> games_played,
         wins |-> acc.wins, draws |-> acc.draws, losses |-> acc.losses,
         goals_scored |-> acc.goals_scored,
         goals_conceded |-> acc.goals_conceded,
         clean_sheets |-> acc.clean_sheets,
         points |-> total_points,
         form_rating |-> IF games_played = 0 THEN 0
                         ELSE TeamFormRating(total_points, acc.goals_scored,
                                             acc.goals_conceded, games_played),
         trend |-> TeamTrend(acc.points_progression),
         recent_results |-> acc.recent_results]

\* calculate_team_form on the rows the store returned.
calculate_team_form(team_id, rows) ==
  IF ~TeamExists(team_id) THEN NoneResult
  ELSE IF rows = <<>> THEN NoneResult
  ELSE
    LET acc == TeamFormLoop(TeamFormAcc0, rows, team_id)
        total_points == acc.wins * 3 + acc.draws
        games_played == acc.wins + acc.draws + acc.losses
    IN  IF games_played = 0 THEN NoneResult
        ELSE [kind |-> "TeamFormAnalysis",
              team_id |-> team_id,
              last_n_games |-> games_played,
              wins |-> acc.wins, draws |-> acc.draws, losses |-> acc.losses,
              goals_scored |-> acc.goals_scored,
              goals_conceded |-> acc.goals_conceded,
              clean_sheets |-> acc.clean_sheets,
              points |-> total_points,
              form_rating |-> TeamFormRating(total_points, acc.goals_scored,
                                             acc.goals_conceded, games_played),
              trend |-> TeamTrend(acc.points_progression),
              recent_results |-> acc.recent_results]

\* A calculate_team_form that also clears the history table.
CallTeamFormClearingHistory ==
  \E team_id \in QueryTeamIds, last_n_games \in 0..Max(MaxFixtures, Len(fixtures)) :
    \E rows \in TeamFormRows(team_id, last_n_games) :
      /\ op' = "calculate_team_form"
      /\ args' = [id |-> team_id, n |-> last_n_games]
      /\ fetched' = rows
      /\ ret' = calculate_team_form(team_id, rows)
      /\ history' = <<>>
      /\ UNCHANGED <<teams, players, fixtures>>

CallTeamForm ==
  \E team_id \in QueryTeamIds, last_n_games \in 0..Max(MaxFixtures, Len(fixtures)) :
    \E rows \in TeamFormRows(team_id, last_n_games) :
      /\ op' = "calculate_team_form"
      /\ args' = [id |-> team_id, n |-> last_n_games]
      /\ fetched' = rows
      /\ ret' = calculate_team_form(team_id, rows)
      /\ UNCHANGED store

(***************************************************************************)
(* calculate_player_form (analytics/form.py).                              *)
(***************************************************************************)
\* POSITION_MAP.get(element_type, "UNK"): form.py line 51.
POSITION_MAP(element_type) ==
  CASE element_type = 1 -> "GK"
    [] element_type = 2 -> "DEF"
    [] element_type = 3 -> "MID"
    [] element_type = 4 -> "FWD"
    [] OTHER -> "UNK"

HistoryOf(player_id) == {hid \in HistoryIds : history[hid].player_id = player_id}

HistoryEvent(hid) == history[hid].event

\* The rows the store may return for form.py lines 191-197.
PlayerFormRows(player_id, last_n_games) ==
  {Limit(f, last_n_games) : f \in OrderByDesc(HistoryOf(player_id), HistoryEvent)}

\* sum(h.<field> or 0 for h in history): form.py lines 223-231.
RECURSIVE SumField(_, _)
SumField(rows, field) ==
  IF rows = <<>> THEN 0
  ELSE OrZero(history[Head(rows)][field]) + SumField(Tail(rows), field)

\* The rating with the forward's branch taken for every position.
PlayerFormRatingAsForward(position, total_points, goals, assists, clean_sheets, xg, games_played) ==
  LET gp == games_played
      den == 100 * gp
      num == 70 * total_points + 80 * goals * gp
               + (IF 10 * goals < xg THEN 2 * xg - 20 * goals ELSE 0) * gp
  IN  RoundHundredths(Max(0, Min(10 * den, num)), den)

\* form.py lines 254-269, in hundredths.  expected goals are in tenths, so
\* every branch is brought to the denominator 100 * games_played.
PlayerFormRating(position, total_points, goals, assists, clean_sheets, xg, games_played) ==
  LET gp == games_played
      den == 100 * gp
      num == CASE position = "GK" -> 120 * total_points + 50 * clean_sheets * gp
               [] position = "DEF" -> 100 * total_points + 50 * clean_sheets * gp
                                        + 30 * (goals + assists) * gp
               [] position = "MID" -> 80 * total_points + 50 * (goals + assists) * gp
               [] OTHER -> 70 * total_points + 80 * goals * gp
                             + (IF 10 * goals < xg THEN 2 * xg - 20 * goals ELSE 0) * gp
      capped == Min(10 * den, num)
      floored == Max(0, capped)
  IN  RoundHundredths(floored, den)

\* form.py lines 271-283.
\* The trend with the two sums taken as the code names them: the rows
\* before the middle as the first half, the rows after it as the second.
PlayerTrendAsNamed(points_progression) ==
  IF Len(points_progression) >= 3
  THEN LET half == Len(points_progression) \div 2
           first_half == SumSeq(Take(points_progression, half))
           second_half == SumSeq(Drop(points_progression, half))
           diff == second_half - first_half
       IN  IF diff > 5 THEN "improving"
           ELSE IF diff < -5 THEN "declining"
           ELSE "stable"
  ELSE "stable"

PlayerTrend(points_progression) ==
  IF Len(points_progression) >= 3
  THEN LET half == Len(points_progression) \div 2
           first_half == SumSeq(Drop(points_progression, half))
           second_half == SumSeq(Take(points_progression, half))
           diff == second_half - first_half
       IN  IF diff > 5 THEN "improving"
           ELSE IF diff < -5 THEN "declining"
           ELSE "stable"
  ELSE "stable"

\* The no-history fallback record: form.py lines 199-220.
PlayerFormFallback(player_id) ==
  LET player == players[player_id]
  IN  [kind |-> "PlayerFormAnalysis",
       player_id |-> player_id,
       team_id |-> player.team_id,
       position |-> POSITION_MAP(player.element_type),
       last_n_games |-> 0,
       total_points |-> OrZero(player.total_points),
       avg_points |-> 10 * OrZero(player.form),
       minutes |-> OrZero(player.minutes),
       goals |-> OrZero(player.goals_scored),
       assists |-> OrZero(player.assists),
       clean_sheets |-> OrZero(player.clean_sheets),
       xg |-> OrZero(player.expected_goals),
       form_rating |-> Min(1000, 10 * OrZero(player.form)),
       trend |-> "stable",
       recent_performances |-> <<>>]

\* calculate_player_form on the history rows the store returned.
calculate_player_form(player_id, rows) ==
  IF ~PlayerExists(player_id) THEN NoneResult
  ELSE IF ~TeamExists(players[player_id].team_id) THEN NoneResult
  ELSE IF rows = <<>> THEN PlayerFormFallback(player_id)
  ELSE
    LET player == players[player_id]
        total_points == SumField(rows, "total_points")
        goals == SumField(rows, "goals_scored")
        assists == SumField(rows, "assists")
        clean_sheets == SumField(rows, "clean_sheets")
        xg == SumField(rows, "expected_goals")
        games_played == Len(rows)
        position == POSITION_MAP(player.element_type)
        points_progression == [i \in 1..Len(rows) |-> OrZero(history[rows[i]].total_points)]
    IN  [kind |-> "PlayerFormAnalysis",
         player_id |-> player_id,
         team_id |-> player.team_id,
         position |-> position,
         last_n_games |-> games_played,
         total_points |-> total_points,
         avg_points |-> RoundHundredths(total_points, games_played),
         minutes |-> SumField(rows, "minutes"),
         goals |-> goals,
         assists |-> assists,
         clean_sheets |-> clean_sheets,
         xg |-> xg,
         form_rating |-> PlayerFormRating(position, total_points, goals, assists,
                                          clean_sheets, xg, games_played),
         trend |-> PlayerTrend(points_progression),
         recent_performances |->
           [i \in 1..Len(rows) |->
              [event |-> history[rows[i]].event,
               opponent_id |-> history[rows[i]].opponent_team,
               points |-> history[rows[i]].total_points,
               minutes |-> history[rows[i]].minutes,
               goals |-> history[rows[i]].goals_scored,
               assists |-> history[rows[i]].assists,
               xg |-> history[rows[i]].expected_goals]]]

CallPlayerForm ==
  \E player_id \in QueryPlayerIds, last_n_games \in 0..Max(MaxHistory, Len(history)) :
    \E rows \in PlayerFormRows(player_id, last_n_games) :
      /\ op' = "calculate_player_form"
      /\ args' = [id |-> player_id, n |-> last_n_games]
      /\ fetched' = rows
      /\ ret' = calculate_player_form(player_id, rows)
      /\ UNCHANGED store

(***************************************************************************)
(* calculate_fixture_difficulty (analytics/fixtures.py).                   *)
(***************************************************************************)
UnfinishedFixturesOf(team_id) ==
  {fid \in FixtureIds :
     /\ ~fixtures[fid].finished
     /\ (fixtures[fid].team_h = team_id \/ fixtures[fid].team_a = team_id)}

FixtureEvent(fid) == fixtures[fid].event

\* The rows the store may return for fixtures.py lines 55-66.
UpcomingRows(team_id, num_fixtures) ==
  {Limit(f, num_fixtures) : f \in OrderByAsc(UnfinishedFixturesOf(team_id), FixtureEvent)}

\* The opponent strengths read for a fixture: fixtures.py lines 99-104.
OppAttack(opponent, is_home) ==
  IF is_home THEN OrDefault(opponent.strength_attack_away, 1000)
  ELSE OrDefault(opponent.strength_attack_home, 1000)

OppDefence(opponent, is_home) ==
  IF is_home THEN OrDefault(opponent.strength_defence_away, 1000)
  ELSE OrDefault(opponent.strength_defence_home, 1000)

\* The home adjustment with its sign reversed.
HomeAdjustmentReversed(is_home) == IF is_home THEN 250 ELSE -250

\* fixtures.py line 113, in five-hundredths.
HomeAdjustment(is_home) == IF is_home THEN -250 ELSE 250

\* The difficulty with the defence factor subtracted instead of added.
ClampedDifficultyDefenceSubtracted(fpl_difficulty, opp_attack, opp_defence, is_home) ==
  LET calculated_difficulty ==
        1000 * fpl_difficulty + 2 * ((opp_attack - 900) - (opp_defence - 900)) - 1000
          + HomeAdjustment(is_home)
  IN  Max(500, Min(5000, calculated_difficulty))

\* fixtures.py lines 106-116, before rounding, in five-hundredths:
\* fpl*2 + ((a-900)/500 + (d-900)/500)*2 - 2 -/+ 0.5, clamped to [1, 10].
ClampedDifficulty(fpl_difficulty, opp_attack, opp_defence, is_home) ==
  LET base_difficulty == 1000 * fpl_difficulty
      strength_adjustment == 2 * ((opp_attack - 900) + (opp_defence - 900)) - 1000
      home_adjustment == HomeAdjustment(is_home)
      calculated_difficulty == base_difficulty + strength_adjustment + home_adjustment
  IN  Max(500, Min(5000, calculated_difficulty))

\* The stored value without the clamp of fixtures.py line 116.
CalculatedDifficultyUnclamped(fpl_difficulty, opp_attack, opp_defence, is_home) ==
  RoundHundredths(1000 * fpl_difficulty + 2 * ((opp_attack - 900) + (opp_defence - 900)) - 1000
                    + HomeAdjustment(is_home), 500)

\* The value stored in the rating, round(calculated_difficulty, 2), in hundredths.
CalculatedDifficulty(fpl_difficulty, opp_attack, opp_defence, is_home) ==
  RoundHundredths(ClampedDifficulty(fpl_difficulty, opp_attack, opp_defence, is_home), 500)

\* One FixtureDifficultyRating: fixtures.py lines 85-135.
RateFixture(fid, team_id) ==
  LET fixture == fixtures[fid]
      is_home == fixture.team_h = team_id
      opponent_id == IF is_home THEN fixture.team_a ELSE fixture.team_h
      opponent == teams[opponent_id]
      fpl_difficulty ==
        OrDefault(IF is_home THEN fixture.team_h_difficulty ELSE fixture.team_a_difficulty, 3)
      opp_attack == OppAttack(opponent, is_home)
      opp_defence == OppDefence(opponent, is_home)
      overall_strength ==
        IF ~is_home THEN OrDefault(opponent.strength_overall_home, 1000)
        ELSE OrDefault(opponent.strength_overall_away, 1000)
  IN  [fixture_id |-> fid,
       event |-> fixture.event,
       opponent_id |-> opponent_id,
       is_home |-> is_home,
       fpl_difficulty |-> fpl_difficulty,
       calculated_difficulty |->
         CalculatedDifficulty(fpl_difficulty, opp_attack, opp_defence, is_home),
       opponent_form_rating |-> RoundHundredths(overall_strength - 900, 50),
       opponent_attack_strength |-> opp_attack,
       opponent_defence_strength |-> opp_defence]

\* The loop of fixtures.py lines 84-135; a fixture whose opponent does not
\* resolve is skipped.
RECURSIVE RateFixtures(_, _)
RateFixtures(rows, team_id) ==
  IF rows = <<>> THEN <<>>
  ELSE LET fixture == fixtures[Head(rows)]
           opponent_id == IF fixture.team_h = team_id THEN fixture.team_a ELSE fixture.team_h
       IN  IF ~TeamExists(opponent_id) THEN RateFixtures(Tail(rows), team_id)
           ELSE <<RateFixture(Head(rows), team_id)>> \o RateFixtures(Tail(rows), team_id)

RECURSIVE SumDifficulty(_)
SumDifficulty(upcoming) ==
  IF upcoming = <<>> THEN 0
  ELSE Head(upcoming).calculated_difficulty + SumDifficulty(Tail(upcoming))

CountWhere(upcoming, Test(_)) == Cardinality({i \in 1..Len(upcoming) : Test(upcoming[i])})

\* The record returned for a team without unfinished fixtures: fixtures.py lines 68-77.
NoFixturesAnalysis(team_id) ==
  [kind |-> "TeamFixtureAnalysis",
   team_id |-> team_id,
   upcoming_fixtures |-> <<>>,
   avg_difficulty |-> 0,
   difficulty_rating |-> "unknown",
   easy_fixtures |-> 0,
   hard_fixtures |-> 0]

\* The summary with the fixture counts taken at the classification
\* thresholds 4 / 6 in place of 4 / 7.
SummariseFixturesClassificationThresholds(team_id, upcoming) ==
  IF upcoming # <<>>
  THEN LET total == SumDifficulty(upcoming)
           n == Len(upcoming)
           IsEasy(f) == f.calculated_difficulty <= 400
           IsHard(f) == f.calculated_difficulty > 600
       IN  [kind |-> "TeamFixtureAnalysis",
            team_id |-> team_id,
            upcoming_fixtures |-> upcoming,
            avg_difficulty |-> RoundHundredths(total, 100 * n),
            difficulty_rating |-> IF total <= 400 * n THEN "easy"
                                  ELSE IF total <= 600 * n THEN "moderate"
                                  ELSE "hard",
            easy_fixtures |-> CountWhere(upcoming, IsEasy),
            hard_fixtures |-> CountWhere(upcoming, IsHard)]
  ELSE NoFixturesAnalysis(team_id)

\* fixtures.py lines 137-162; the thresholds compare the unrounded average
\* sum/len, in hundredths: avg <= 4 iff sum <= 400 * len.
SummariseFixtures(team_id, upcoming) ==
  IF upcoming # <<>>
  THEN LET total == SumDifficulty(upcoming)
           n == Len(upcoming)
           IsEasy(f) == f.calculated_difficulty <= 400
           IsHard(f) == f.calculated_difficulty >= 700
       IN  [kind |-> "TeamFixtureAnalysis",
            team_id |-> team_id,
            upcoming_fixtures |-> upcoming,
            avg_difficulty |-> RoundHundredths(total, 100 * n),
            difficulty_rating |-> IF total <= 400 * n THEN "easy"
                                  ELSE IF total <= 600 * n THEN "moderate"
                                  ELSE "hard",
            easy_fixtures |-> CountWhere(upcoming, IsEasy),
            hard_fixtures |-> CountWhere(upcoming, IsHard)]
  ELSE NoFixturesAnalysis(team_id)

\* calculate_fixture_difficulty without the team lookup of lines 47-52: an
\* unknown team gets the record of a team without fixtures.
calculate_fixture_difficulty_unchecked(team_id, rows) ==
  IF rows = <<>> THEN NoFixturesAnalysis(team_id)
  ELSE SummariseFixtures(team_id, RateFixtures(rows, team_id))

\* calculate_fixture_difficulty on the fixture rows the store returned.
calculate_fixture_difficulty(team_id, rows) ==
  IF ~TeamExists(team_id) THEN NoneResult
  ELSE IF rows = <<>> THEN NoFixturesAnalysis(team_id)
  ELSE SummariseFixtures(team_id, RateFixtures(rows, team_id))

\* get_player_fixture_difficulty: fixtures.py lines 165-179.
get_player_fixture_difficulty(player_id, rows) ==
  IF ~PlayerExists(player_id) THEN NoneResult
  ELSE IF players[player_id].team_id = 0 THEN NoneResult
  ELSE calculate_fixture_difficulty(players[player_id].team_id, rows)

CallFixtureDifficulty ==
  \E team_id \in QueryTeamIds, num_fixtures \in 0..MaxFixtures :
    \E rows \in UpcomingRows(team_id, num_fixtures) :
      /\ op' = "calculate_fixture_difficulty"
      /\ args' = [id |-> team_id, n |-> num_fixtures]
      /\ fetched' = rows
      /\ ret' = calculate_fixture_difficulty(team_id, rows)
      /\ UNCHANGED store

CallPlayerFixtureDifficulty ==
  \E player_id \in QueryPlayerIds, num_fixtures \in 0..MaxFixtures :
    \E rows \in UpcomingRows(IF PlayerExists(player_id) THEN players[player_id].team_id ELSE 0,
                              num_fixtures) :
      /\ op' = "get_player_fixture_difficulty"
      /\ args' = [id |-> player_id, n |-> num_fixtures]
      /\ fetched' = rows
      /\ ret' = get_player_fixture_difficulty(player_id, rows)
      /\ UNCHANGED store

(***************************************************************************)
(* get_easiest_fixtures / get_hardest_fixtures / identify_fixture_swings   *)
(* (analytics/fixtures.py).  select(Team) has no ORDER BY: the store       *)
(* returns the teams in an order it chooses.                               *)
(***************************************************************************)
Reverse(s) == [i \in 1..Len(s) |-> s[Len(s) + 1 - i]]

\* The rows of select(Team): fixtures.py lines 188-189.
TeamRows == Perms(DOMAIN teams)

\* What the store may return to the calculate_fixture_difficulty call of
\* each team.
TeamFixtureRows(num_fixtures) ==
  {f \in [DOMAIN teams -> UNION {UpcomingRows(t, num_fixtures) : t \in DOMAIN teams}] :
     \A t \in DOMAIN teams : f[t] \in UpcomingRows(t, num_fixtures)}

\* fixtures.py lines 191-195: the analyses of the teams that have one with
\* rated fixtures, in the order of the team rows.
RatedAnalyses(team_rows, fixture_rows) ==
  LET all == [i \in 1..Len(team_rows) |->
                calculate_fixture_difficulty(team_rows[i], fixture_rows[team_rows[i]])]
  IN  SelectSeq(all, LAMBDA a : a.kind = "TeamFixtureAnalysis" /\ a.upcoming_fixtures # <<>>)

\* fixtures.py line 198.
EasierThan(a, b) == a.avg_difficulty < b.avg_difficulty
HarderThan(a, b) == a.avg_difficulty > b.avg_difficulty

get_easiest_fixtures(team_rows, fixture_rows, limit) ==
  Take(StableSort(RatedAnalyses(team_rows, fixture_rows), EasierThan), limit)

\* A hardest list sorted on its own, descending: teams of equal average
\* keep the order of the team rows.
get_hardest_fixtures_sorted(team_rows, fixture_rows, limit) ==
  Take(StableSort(RatedAnalyses(team_rows, fixture_rows), HarderThan), limit)

\* fixtures.py lines 202-211: the full easiest list, reversed, cut.
get_hardest_fixtures(team_rows, fixture_rows, limit) ==
  Take(Reverse(get_easiest_fixtures(team_rows, fixture_rows, Len(team_rows))), limit)

CallEasiestFixtures ==
  \E num_fixtures \in 1..MaxFixtures :
    \E team_rows \in TeamRows, fixture_rows \in TeamFixtureRows(num_fixtures),
       limit \in 0..MaxLimit :
      /\ op' = "get_easiest_fixtures"
      /\ args' = [n |-> num_fixtures, limit |-> limit]
      /\ fetched' = [teams |-> team_rows, fixtures |-> fixture_rows]
      /\ ret' = ListResult(get_easiest_fixtures(team_rows, fixture_rows, limit))
      /\ UNCHANGED store

CallHardestFixtures ==
  \E num_fixtures \in 1..MaxFixtures :
    \E team_rows \in TeamRows, fixture_rows \in TeamFixtureRows(num_fixtures),
       limit \in 0..MaxLimit :
      /\ op' = "get_hardest_fixtures"
      /\ args' = [n |-> num_fixtures, limit |-> limit]
      /\ fetched' = [teams |-> team_rows, fixtures |-> fixture_rows]
      /\ ret' = ListResult(get_hardest_fixtures(team_rows, fixture_rows, limit))
      /\ UNCHANGED store

\* One team's entry with both thresholds inclusive (>= 2 and <= -2).
FixtureSwingInclusive(team_id, upcoming) ==
  LET mid == Len(upcoming) \div 2
      n1 == mid
      n2 == Len(upcoming) - mid
      first_sum == SumDifficulty(Take(upcoming, mid))
      second_sum == SumDifficulty(Drop(upcoming, mid))
      diff_num == first_sum * n2 - second_sum * n1
  IN  [team_id |-> team_id,
       current_difficulty |-> RoundHundredths(first_sum, 100 * n1),
       future_difficulty |-> RoundHundredths(second_sum, 100 * n2),
       change |-> RoundHundredths(diff_num, 100 * n1 * n2),
       direction |-> IF diff_num >= 200 * n1 * n2 THEN "improving"
                     ELSE IF diff_num <= -(200 * n1 * n2) THEN "worsening"
                     ELSE "none"]

\* One team's entry of identify_fixture_swings: fixtures.py lines 228-255.
\* The averages are the fractions first_sum / n1 and second_sum / n2 of
\* hundredths; diff > 2 iff first_sum * n2 - second_sum * n1 > 200 * n1 * n2.
FixtureSwing(team_id, upcoming) ==
  LET mid == Len(upcoming) \div 2
      n1 == mid
      n2 == Len(upcoming) - mid
      first_sum == SumDifficulty(Take(upcoming, mid))
      second_sum == SumDifficulty(Drop(upcoming, mid))
      diff_num == first_sum * n2 - second_sum * n1
  IN  [team_id |-> team_id,
       current_difficulty |-> RoundHundredths(first_sum, 100 * n1),
       future_difficulty |-> RoundHundredths(second_sum, 100 * n2),
       change |-> RoundHundredths(diff_num, 100 * n1 * n2),
       direction |-> IF diff_num > 200 * n1 * n2 THEN "improving"
                     ELSE IF diff_num < -(200 * n1 * n2) THEN "worsening"
                     ELSE "none"]

\* fixtures.py line 229: the minimum number of rated fixtures of a swing.
MinSwingFixtures == 4

\* identify_fixture_swings: fixtures.py lines 214-261.
identify_fixture_swings(team_rows, fixture_rows) ==
  LET analyses == [i \in 1..Len(team_rows) |->
                     calculate_fixture_difficulty(team_rows[i], fixture_rows[team_rows[i]])]
      long == SelectSeq(analyses,
                        LAMBDA a : /\ a.kind = "TeamFixtureAnalysis"
                                   /\ Len(a.upcoming_fixtures) >= MinSwingFixtures)
      swings == [i \in 1..Len(long) |-> FixtureSwing(long[i].team_id, long[i].upcoming_fixtures)]
      improving == SelectSeq(swings, LAMBDA w : w.direction = "improving")
      worsening == SelectSeq(swings, LAMBDA w : w.direction = "worsening")
  IN  [kind |-> "swings",
       improving |-> StableSort(improving, LAMBDA a, b : a.change > b.change),
       worsening |-> StableSort(worsening, LAMBDA a, b : a.change < b.change)]

CallFixtureSwings ==
  \E num_fixtures \in 0..Max(MaxFixtures, Len(fixtures)) :
    \E team_rows \in TeamRows, fixture_rows \in TeamFixtureRows(num_fixtures) :
      /\ op' = "identify_fixture_swings"
      /\ args' = [n |-> num_fixtures]
      /\ fetched' = [teams |-> team_rows, fixtures |-> fixture_rows]
      /\ ret' = identify_fixture_swings(team_rows, fixture_rows)
      /\ UNCHANGED store

(***************************************************************************)
(* find_bogey_teams / find_favored_teams (analytics/insights.py).          *)
(***************************************************************************)
\* SQL AVG / SUM over a set of history rows skip NULLs and are NULL when no
\* value is left.  An average is kept as the fraction num / den, den > 0.
NonNull(hids, field) == {hid \in hids : ~IsNone(history[hid][field])}

RECURSIVE SumOver(_, _)
SumOver(hids, field) ==
  IF hids = {} THEN 0
  ELSE LET hid == CHOOSE x \in hids : TRUE
       IN  Val(history[hid][field]) + SumOver(hids \ {hid}, field)

\* func.sum(field) `or 0`.
SqlSumOrZero(hids, field) == SumOver(NonNull(hids, field), field)

\* func.avg(total_points) `or 0` as a fraction.
SqlAvgOrZero(hids) ==
  LET S == NonNull(hids, "total_points")
  IN  IF S = {} THEN [num |-> 0, den |-> 1]
      ELSE [num |-> SumOver(S, "total_points"), den |-> Cardinality(S)]

\* The groups of insights.py lines 87-99: GROUP BY opponent_team HAVING count >= min_games.
OpponentGroups(player_id, min_games) ==
  {o \in {history[hid].opponent_team : hid \in HistoryOf(player_id)} :
     Cardinality({hid \in HistoryOf(player_id) : history[hid].opponent_team = o}) >= min_games}

GroupRows(player_id, o) == {hid \in HistoryOf(player_id) : history[hid].opponent_team = o}

\* diff = avg_points - overall_avg as the fraction num / den, den > 0.
PerformanceDiff(player_id, o) ==
  LET a == SqlAvgOrZero(GroupRows(player_id, o))
      b == SqlAvgOrZero(HistoryOf(player_id))
  IN  [num |-> a.num * b.den - b.num * a.den, den |-> a.den * b.den]

\* insights.py line 111: diff < -1.0.
IsBogey(diff) == diff.num < -diff.den
\* The favored test with its comparison reversed.
IsFavoredReversed(diff) == diff.num < diff.den

\* insights.py line 176: diff > 1.0.
IsFavored(diff) == diff.num > diff.den

\* One BogeyTeamResult: insights.py lines 112-124 and 177-189.
BogeyTeamResult(player_id, o) ==
  LET rows == GroupRows(player_id, o)
      a == SqlAvgOrZero(rows)
      b == SqlAvgOrZero(HistoryOf(player_id))
      d == PerformanceDiff(player_id, o)
  IN  [player_id |-> player_id,
       opponent_id |-> Val(o),
       games_played |-> Cardinality(rows),
       total_points |-> SqlSumOrZero(rows, "total_points"),
       avg_points |-> RoundHundredths(a.num, a.den),
       goals |-> SqlSumOrZero(rows, "goals_scored"),
       assists |-> SqlSumOrZero(rows, "assists"),
       overall_avg_points |-> RoundHundredths(b.num, b.den),
       performance_diff |-> RoundHundredths(d.num, d.den)]

\* The loops of insights.py lines 101-124 and 167-189 over the grouped rows
\* in the order the store returned them.
OpponentLoop(player_id, groups, Keep(_)) ==
  LET Kept(o) ==
        /\ ~IsNone(o)
        /\ TeamExists(Val(o))
        /\ Keep(PerformanceDiff(player_id, o))
      kept == SelectSeq(groups, Kept)
  IN  [i \in 1..Len(kept) |-> BogeyTeamResult(player_id, kept[i])]

\* insights.py lines 85 and 108-109 (151 and 173-174): the overall average
\* is AVG over the Integer column total_points, which the configured store
\* (config.py line 43, postgresql+asyncpg) computes as a numeric and hands
\* over as a decimal.Decimal; `or 0` replaces it by the integer 0 only when it
\* is NULL or zero.  avg_points is a float, and float - Decimal raises
\* TypeError at the first grouped row whose opponent resolves.
OverallAvgIsDecimal(player_id) == SqlAvgOrZero(HistoryOf(player_id)).num # 0

Resolves(o) == ~IsNone(o) /\ TeamExists(Val(o))

SubtractionRaises(player_id, groups) ==
  /\ PlayerExists(player_id)
  /\ OverallAvgIsDecimal(player_id)
  /\ \E i \in 1..Len(groups) : Resolves(groups[i])

DiffAscending(a, b) == a.performance_diff < b.performance_diff
DiffDescending(a, b) == a.performance_diff > b.performance_diff

find_bogey_teams(player_id, groups) ==
  IF ~PlayerExists(player_id) \/ SubtractionRaises(player_id, groups) THEN <<>>
  ELSE StableSort(OpponentLoop(player_id, groups, IsBogey), DiffAscending)

find_favored_teams(player_id, groups) ==
  IF ~PlayerExists(player_id) \/ SubtractionRaises(player_id, groups) THEN <<>>
  ELSE StableSort(OpponentLoop(player_id, groups, IsFavored), DiffDescending)

\* Both analyses of one player on the same snapshot; the store returns the
\* groups of each query in an order of its choosing.  A call that raised
\* returned no list: its list is empty and its raised flag is set.
CallBogeyFavored ==
  \E player_id \in QueryPlayerIds, min_games \in 0..MaxHistory :
    \E g1 \in Perms(OpponentGroups(player_id, min_games)),
       g2 \in Perms(OpponentGroups(player_id, min_games)) :
      /\ op' = "find_bogey_favored"
      /\ args' = [id |-> player_id, n |-> min_games]
      /\ fetched' = <<g1, g2>>
      /\ ret' = [kind |-> "bogey_favored",
                 bogey |-> find_bogey_teams(player_id, g1),
                 favored |-> find_favored_teams(player_id, g2),
                 bogey_raised |-> SubtractionRaises(player_id, g1),
                 favored_raised |-> SubtractionRaises(player_id, g2)]
      /\ UNCHANGED store

(***************************************************************************)
(* generate_transfer_suggestions / find_differentials (insights.py).       *)
(* Prices, form and ownership are in tenths; a budget is given in tenths,  *)
(* which is the code's max_cost = int(budget * 10).                        *)
(***************************************************************************)
\* The number of upcoming fixtures and history rows the insights look at
\* (insights.py lines 237, 241, 339) and the size of the candidate list
\* (lines 225, 323).
InsightWindow == 5
CandidateLimit == 50

\* Python truthiness of an optional number: None and 0 are falsy.
Truthy(x) == IF IsNone(x) THEN FALSE ELSE Val(x) # 0

\* SQL comparisons are not true on NULL.
SqlGt(x, v) == IF IsNone(x) THEN FALSE ELSE Val(x) > v
SqlGe(x, v) == IF IsNone(x) THEN FALSE ELSE Val(x) >= v
SqlLe(x, v) == IF IsNone(x) THEN FALSE ELSE Val(x) <= v

\* The sync stores a number for form (sync_fpl_data.py line 89).
PlayerFormKey(player_id) == Val(players[player_id].form)

\* The optional filters shared by both queries: insights.py lines 214-219
\* and 316-321.
BudgetPositionFilter(player_id, budget, position) ==
  /\ (Truthy(budget) => SqlLe(players[player_id].now_cost, Val(budget)))
  /\ (Truthy(position) => players[player_id].element_type = Val(position))

\* insights.py lines 207-222; exclude is None or a set of player ids.
SuggestionCandidates(budget, position, exclude) ==
  {pid \in DOMAIN players :
     /\ players[pid].status = "a"
     /\ SqlGt(players[pid].minutes, 0)
     /\ BudgetPositionFilter(pid, budget, position)
     /\ ((~IsNone(exclude) /\ Val(exclude) # {}) => pid \notin Val(exclude))}

\* The rows the store may return for insights.py lines 225-228.
SuggestionRows(budget, position, exclude) ==
  {Limit(f, CandidateLimit) :
     f \in OrderByDesc(SuggestionCandidates(budget, position, exclude), PlayerFormKey)}

\* insights.py line 238 and line 340.
FixtureDiffOf(fixture_analysis) ==
  IF fixture_analysis.kind = "TeamFixtureAnalysis" THEN fixture_analysis.avg_difficulty
  ELSE 500

\* insights.py lines 244-248, in hundredths.
ExpectedPoints(form, fixture_diff) ==
  RoundHundredths(Max(0, 150 * form + 3 * (500 - fixture_diff)), 1000)

\* The reasons with the ownership compared without the truthiness test of
\* insights.py line 262: an ownership of 0 counts as a differential.
SuggestionReasonsOwnershipUntested(form_rating, fixture_diff, selected_by_percent) ==
  LET reasons ==
        (IF form_rating >= 700 THEN <<"excellent form">>
         ELSE IF form_rating >= 500 THEN <<"good form">> ELSE <<>>)
        \o (IF fixture_diff <= 300 THEN <<"very easy fixtures">>
            ELSE IF fixture_diff <= 450 THEN <<"favorable fixtures">> ELSE <<>>)
        \o (IF OrZero(selected_by_percent) < 100
            THEN <<"low ownership differential">> ELSE <<>>)
  IN  IF reasons = <<>> THEN <<"solid option">> ELSE reasons

\* insights.py lines 250-266.
SuggestionReasons(form_rating, fixture_diff, selected_by_percent) ==
  LET reasons ==
        (IF form_rating >= 700 THEN <<"excellent form">>
         ELSE IF form_rating >= 500 THEN <<"good form">> ELSE <<>>)
        \o (IF fixture_diff <= 300 THEN <<"very easy fixtures">>
            ELSE IF fixture_diff <= 450 THEN <<"favorable fixtures">> ELSE <<>>)
        \o (IF Truthy(selected_by_percent) /\ Val(selected_by_percent) < 100
            THEN <<"low ownership differential">> ELSE <<>>)
  IN  IF reasons = <<>> THEN <<"solid option">> ELSE reasons

\* The priority taken at the fixture thresholds of the reasons (3 and 4.5)
\* in place of 4 and 5.
SuggestionPriorityAtReasonThresholds(form_rating, fixture_diff) ==
  IF form_rating >= 700 /\ fixture_diff <= 300 THEN 1
  ELSE IF form_rating >= 500 /\ fixture_diff <= 450 THEN 2
  ELSE 3

\* insights.py lines 268-273.
SuggestionPriority(form_rating, fixture_diff) ==
  IF form_rating >= 700 /\ fixture_diff <= 400 THEN 1
  ELSE IF form_rating >= 500 /\ fixture_diff <= 500 THEN 2
  ELSE 3

\* One TransferSuggestion: insights.py lines 232-288.  fixture_rows and
\* history_rows are what the store returned to the two nested analyses.
TransferSuggestion(player_id, fixture_rows, history_rows) ==
  LET player == players[player_id]
      fixture_analysis == calculate_fixture_difficulty(player.team_id, fixture_rows)
      fixture_diff == FixtureDiffOf(fixture_analysis)
      form_analysis == calculate_player_form(player_id, history_rows)
      form_rating == IF form_analysis.kind = "PlayerFormAnalysis"
                     THEN form_analysis.form_rating
                     ELSE 10 * OrZero(player.form)
  IN  [player_id |-> player_id,
       team_id |-> player.team_id,
       position |-> POSITION_MAP(player.element_type),
       price |-> OrZero(player.now_cost),
       form |-> OrZero(player.form),
       form_rating |-> form_rating,
       fixture_difficulty |-> fixture_diff,
       ownership |-> OrZero(player.selected_by_percent),
       expected_points |-> ExpectedPoints(OrZero(player.form), fixture_diff),
       reason |-> SuggestionReasons(form_rating, fixture_diff, player.selected_by_percent),
       priority |-> SuggestionPriority(form_rating, fixture_diff)]

\* insights.py line 291: key (priority, -expected_points).
SuggestionBeforeByPriority(a, b) == a.priority < b.priority

SuggestionBefore(a, b) ==
  \/ a.priority < b.priority
  \/ (a.priority = b.priority /\ a.expected_points > b.expected_points)

\* generate_transfer_suggestions on the candidate rows and, per candidate,
\* the fixture and history rows the store returned.
generate_transfer_suggestions(rows, fixture_rows, history_rows, limit) ==
  LET resolved == SelectSeq(rows, LAMBDA pid : TeamExists(players[pid].team_id))
      suggestions == [i \in 1..Len(resolved) |->
                        TransferSuggestion(resolved[i], fixture_rows[resolved[i]],
                                           history_rows[resolved[i]])]
  IN  Take(StableSort(suggestions, SuggestionBefore), limit)

\* insights.py lines 307-321; ownership and form bounds in tenths.
DifferentialCandidates(max_ownership, min_form, budget, position) ==
  {pid \in DOMAIN players :
     /\ players[pid].status = "a"
     /\ SqlLe(players[pid].selected_by_percent, max_ownership)
     /\ SqlGe(players[pid].form, min_form)
     /\ SqlGt(players[pid].minutes, 0)
     /\ BudgetPositionFilter(pid, budget, position)}

\* The rows the store may return for insights.py lines 323-326.
DifferentialRows(max_ownership, min_form, budget, position) ==
  {Limit(f, CandidateLimit) :
     f \in OrderByDesc(DifferentialCandidates(max_ownership, min_form, budget, position),
                       PlayerFormKey)}

\* One DifferentialPlayer: insights.py lines 330-368.
DifferentialPlayer(player_id, fixture_rows) ==
  LET player == players[player_id]
      price == OrDefault(player.now_cost, 50)
      total_points == OrZero(player.total_points)
      value_high == price > 0 /\ 10 * total_points > 15 * price
      fixture_analysis == calculate_fixture_difficulty(player.team_id, fixture_rows)
      fixture_diff == FixtureDiffOf(fixture_analysis)
      reasons ==
        (IF Truthy(player.form) /\ Val(player.form) >= 50 THEN <<"in-form">> ELSE <<>>)
        \o (IF value_high THEN <<"great value">> ELSE <<>>)
        \o (IF fixture_diff <= 400 THEN <<"easy upcoming fixtures">> ELSE <<>>)
        \o (IF Truthy(player.ict_index) /\ Val(player.ict_index) > 500
            THEN <<"high ICT">> ELSE <<>>)
  IN  [player_id |-> player_id,
       team_id |-> player.team_id,
       position |-> POSITION_MAP(player.element_type),
       price |-> price,
       ownership |-> OrZero(player.selected_by_percent),
       form |-> OrZero(player.form),
       total_points |-> total_points,
       points_per_million |-> IF price > 0 THEN RoundHundredths(10 * total_points, price)
                              ELSE 0,
       fixture_difficulty |-> fixture_diff,
       upside_reason |-> IF reasons = <<>> THEN <<"potential sleeper pick">> ELSE reasons]

\* insights.py lines 371-374: key form * (1 / max(ownership, 0.1)), descending.
DifferentialBeforeByForm(a, b) == a.form > b.form

DifferentialBefore(a, b) ==
  a.form * Max(b.ownership, 1) > b.form * Max(a.ownership, 1)

find_differentials(rows, fixture_rows, limit) ==
  LET resolved == SelectSeq(rows, LAMBDA pid : TeamExists(players[pid].team_id))
      differentials == [i \in 1..Len(resolved) |->
                          DifferentialPlayer(resolved[i], fixture_rows[resolved[i]])]
  IN  Take(StableSort(differentials, DifferentialBefore), limit)

\* What the store may return to the nested analyses of each player.
NestedFixtureRows ==
  {f \in [DOMAIN players -> UNION {UpcomingRows(t, InsightWindow) : t \in DOMAIN teams}] :
     \A pid \in DOMAIN players : f[pid] \in UpcomingRows(players[pid].team_id, InsightWindow)}

NestedHistoryRows ==
  {f \in [DOMAIN players -> UNION {PlayerFormRows(pid, InsightWindow) : pid \in DOMAIN players}] :
     \A pid \in DOMAIN players : f[pid] \in PlayerFormRows(pid, InsightWindow)}

\* Arguments a caller passes: the defaults of the signature (insights.py
\* lines 196-201 and 296-302) and each argument varied on its own.
DefaultSuggestionArgs == [budget |-> None, position |-> None, exclude |-> None]
SuggestionArgs ==
  {DefaultSuggestionArgs,
   [DefaultSuggestionArgs EXCEPT !.budget = Some(0)],
   [DefaultSuggestionArgs EXCEPT !.budget = Some(55)],
   [DefaultSuggestionArgs EXCEPT !.position = Some(3)],
   [DefaultSuggestionArgs EXCEPT !.exclude = Some({1})]}

DefaultDifferentialArgs ==
  [max_ownership |-> 100, min_form |-> 30, budget |-> None, position |-> None]
DifferentialArgs ==
  {DefaultDifferentialArgs,
   [DefaultDifferentialArgs EXCEPT !.max_ownership = 50],
   [DefaultDifferentialArgs EXCEPT !.min_form = 0],
   [DefaultDifferentialArgs EXCEPT !.budget = Some(55)],
   [DefaultDifferentialArgs EXCEPT !.position = Some(4)]}

CallTransferSuggestions ==
  \E a \in SuggestionArgs, limit \in 0..MaxLimit :
    \E rows \in SuggestionRows(a.budget, a.position, a.exclude),
       fixture_rows \in NestedFixtureRows, history_rows \in NestedHistoryRows :
      /\ op' = "generate_transfer_suggestions"
      /\ args' = [budget |-> a.budget, position |-> a.position, exclude |-> a.exclude,
                  limit |-> limit]
      /\ fetched' = <<rows, fixture_rows, history_rows>>
      /\ ret' = ListResult(generate_transfer_suggestions(rows, fixture_rows, history_rows, limit))
      /\ UNCHANGED store

CallDifferentials ==
  \E a \in DifferentialArgs, limit \in 0..MaxLimit :
    \E rows \in DifferentialRows(a.max_ownership, a.min_form, a.budget, a.position),
       fixture_rows \in NestedFixtureRows :
      /\ op' = "find_differentials"
      /\ args' = [max_ownership |-> a.max_ownership, min_form |-> a.min_form,
                  budget |-> a.budget, position |-> a.position, limit |-> limit]
      /\ fetched' = <<rows, fixture_rows>>
      /\ ret' = ListResult(find_differentials(rows, fixture_rows, limit))
      /\ UNCHANGED store

(***************************************************************************)
(* get_captaincy_picks (insights.py lines 378-450).  The captain score is  *)
(* a float the code does not round: it is kept as the exact fraction       *)
(* num / den.                                                              *)
(***************************************************************************)
\* insights.py line 395: the size of the top-form candidate list.
CaptainCandidateLimit == 30

\* The rows the store may return for the player query: lines 385-396.
\* team_player_ids is None or a set of ids; None and the empty list take
\* the top-form branch.
CaptainRows(team_player_ids) ==
  IF ~IsNone(team_player_ids) /\ Val(team_player_ids) # {}
  THEN Perms({pid \in DOMAIN players : pid \in Val(team_player_ids)})
  ELSE {Limit(f, CaptainCandidateLimit) :
          f \in OrderByDesc({pid \in DOMAIN players :
                               players[pid].status = "a" /\ SqlGt(players[pid].minutes, 0)},
                            PlayerFormKey)}

\* form * (10 - fixture_diff) / 10, times 1.1 at home: lines 417-431, with
\* form in tenths and fixture_diff in hundredths.
CaptainScoreDen == 100000
CaptainScoreNoHomeBonus(form, fixture_diff, is_home) == form * (1000 - fixture_diff) * 10
CaptainScore(form, fixture_diff, is_home) ==
  form * (1000 - fixture_diff) * (IF is_home THEN 11 ELSE 10)

\* One captaincy candidate: lines 404-445.
CaptainCandidate(player_id, next_fixture) ==
  LET player == players[player_id]
      fixture_diff == next_fixture.calculated_difficulty
      form == OrZero(player.form)
      score == CaptainScore(form, fixture_diff, next_fixture.is_home)
      reasons ==
        (IF form >= 60 THEN <<"excellent form">> ELSE <<>>)
        \o (IF fixture_diff <= 300 THEN <<"easy fixture">>
            ELSE IF fixture_diff <= 500 THEN <<"moderate fixture">> ELSE <<>>)
        \o (IF next_fixture.is_home THEN <<"home advantage">> ELSE <<>>)
  IN  [player_id |-> player_id,
       team_id |-> player.team_id,
       position |-> POSITION_MAP(player.element_type),
       price |-> OrZero(player.now_cost),
       form |-> form,
       form_rating |-> [num |-> score, den |-> CaptainScoreDen],
       fixture_difficulty |-> fixture_diff,
       ownership |-> OrZero(player.selected_by_percent),
       expected_points |-> RoundHundredths(2 * score, CaptainScoreDen),
       reason |-> IF reasons = <<>> THEN <<"solid pick">> ELSE reasons,
       priority |-> 1]

\* insights.py line 449: key form_rating, descending.
CaptainBefore(a, b) == a.form_rating.num > b.form_rating.num

\* get_captaincy_picks on the player rows and, per player, the fixture rows
\* the store returned to calculate_fixture_difficulty(team, 1).
get_captaincy_picks(rows, fixture_rows, limit) ==
  LET Analysis(pid) == calculate_fixture_difficulty(players[pid].team_id, fixture_rows[pid])
      rated == SelectSeq(rows,
                 LAMBDA pid : /\ TeamExists(players[pid].team_id)
                              /\ Analysis(pid).kind = "TeamFixtureAnalysis"
                              /\ Analysis(pid).upcoming_fixtures # <<>>)
      candidates == [i \in 1..Len(rated) |->
                       CaptainCandidate(rated[i], Analysis(rated[i]).upcoming_fixtures[1])]
  IN  Take(StableSort(candidates, CaptainBefore), limit)

\* What the store may return to the next-fixture query of each player.
NextFixtureRows ==
  {f \in [DOMAIN players -> UNION {UpcomingRows(t, 1) : t \in DOMAIN teams}] :
     \A pid \in DOMAIN players : f[pid] \in UpcomingRows(players[pid].team_id, 1)}

\* The squads a caller passes: none, an empty one, both players, or
\* player 2 and an id that is not in the store.
CaptainSquads == {None, Some({}), Some({1, 2}), Some({2, 3})}

CallCaptaincyPicks ==
  \E team_player_ids \in CaptainSquads :
    \E rows \in CaptainRows(team_player_ids), fixture_rows \in NextFixtureRows,
       limit \in 0..MaxLimit :
      /\ op' = "get_captaincy_picks"
      /\ args' = [team_player_ids |-> team_player_ids, limit |-> limit]
      /\ fetched' = <<rows, fixture_rows>>
      /\ ret' = ListResult(get_captaincy_picks(rows, fixture_rows, limit))
      /\ UNCHANGED store

(***************************************************************************)
(* Store snapshots.  Foreign keys hold (models.py): a fixture, a player    *)
(* and a history row reference teams and players of the store.             *)
(***************************************************************************)
SeqsUpTo(S, n) == UNION {[1..k -> S] : k \in 0..n}

Team(attack_home, defence_home, attack_away, defence_away) ==
  [strength_attack_home |-> attack_home,
   strength_defence_home |-> defence_home,
   strength_attack_away |-> attack_away,
   strength_defence_away |-> defence_away,
   strength_overall_home |-> Some(1100),
   strength_overall_away |-> Some(1050)]

PlainTeam == Team(Some(1100), Some(1100), Some(1050), Some(1050))
PlainTeams == [t \in TeamIds |-> PlainTeam]

Fixture(team_h, team_a, finished, kickoff_time, event, h_score, a_score, h_diff, a_diff) ==
  [team_h |-> team_h, team_a |-> team_a, finished |-> finished,
   kickoff_time |-> kickoff_time, event |-> event,
   team_h_score |-> h_score, team_a_score |-> a_score,
   team_h_difficulty |-> h_diff, team_a_difficulty |-> a_diff]

NoPlayers == <<>>
NoHistory == <<>>
NoFixtures == <<>>

NoCall ==
  /\ op = "none"
  /\ args = [id |-> 0, n |-> 0]
  /\ fetched = <<>>
  /\ ret = NoneResult

\* Fixtures for team form: finished ones between teams 1 and 2 with scores
\* 3-0, 0-0 or a missing score, home or away, at kickoff time 1 or 2, an
\* unfinished one without scores, and a finished one that team 1 is not part of.
Pairings == {<<1, 2>>, <<2, 1>>}
Scores == {<<None, Some(0)>>, <<Some(0), Some(0)>>, <<Some(3), Some(0)>>}

FormFixtures ==
  {Fixture(p[1], p[2], TRUE, k, k, sc[1], sc[2], Some(3), Some(3)) :
     p \in Pairings, k \in {1, 2}, sc \in Scores}
  \cup {Fixture(1, 2, FALSE, 3, 3, None, None, Some(3), Some(3))}
  \cup {Fixture(2, 3, TRUE, 2, 2, Some(3), Some(0), Some(3), Some(3))}

InitTeamForm ==
  /\ teams = PlainTeams
  /\ players = NoPlayers
  /\ history = NoHistory
  /\ fixtures \in SeqsUpTo(FormFixtures, MaxFixtures)
  /\ NoCall

SpecTeamForm == InitTeamForm /\ [][CallTeamForm]_vars

Player(team_id, element_type, form, status, minutes, now_cost, selected_by_percent) ==
  [team_id |-> team_id, element_type |-> element_type, form |-> form,
   status |-> status, minutes |-> minutes, now_cost |-> now_cost,
   selected_by_percent |-> selected_by_percent,
   total_points |-> Some(40), ict_index |-> Some(300),
   goals_scored |-> Some(2), assists |-> Some(1), clean_sheets |-> Some(3),
   expected_goals |-> Some(15)]

History(player_id, event, opponent_team, total_points, stats) ==
  [player_id |-> player_id, event |-> event, opponent_team |-> opponent_team,
   total_points |-> total_points, minutes |-> Some(90),
   goals_scored |-> stats[1], assists |-> stats[2], clean_sheets |-> stats[3],
   expected_goals |-> stats[4]]

PlainPlayer == Player(2, 3, Some(40), "a", Some(900), Some(60), Some(150))

\* History rows for player form: gameweek 1 or 2; a row with missing points
\* and stats, one with -2 points and no stats, one with 20 points, 3 goals,
\* 1 assist, 1 clean sheet and 4.5 expected goals; and one row of player 2.
FormPerformances ==
  {<<None, <<None, None, None, None>>>>,
   <<Some(-2), <<Some(0), Some(0), Some(0), Some(0)>>>>,
   <<Some(20), <<Some(3), Some(1), Some(1), Some(45)>>>>}
FormHistory ==
  {History(1, e, Some(2), pf[1], pf[2]) : e \in {1, 2}, pf \in FormPerformances}
  \cup {History(2, 2, Some(1), Some(5), <<Some(1), Some(0), Some(0), Some(8)>>)}

\* Season form values as the sync stores them, in tenths.
SeasonForms == {Some(-10), Some(0), Some(55), Some(120)}

InitPlayerForm ==
  /\ teams = PlainTeams
  /\ fixtures = NoFixtures
  /\ \E element_type \in 1..5, form \in SeasonForms :
       players = [p \in PlayerIds |->
                    IF p = 1 THEN Player(1, element_type, form, "a", Some(900), Some(60), Some(150))
                    ELSE PlainPlayer]
  /\ history \in SeqsUpTo(FormHistory, MaxHistory)
  /\ (history # <<>> => players[1].form = Some(55))
  /\ NoCall

SpecPlayerForm == InitPlayerForm /\ [][CallPlayerForm]_vars

\* Stores for fixture difficulty: team 1 has two unfinished fixtures, one
\* against team 2 and one against team 3, at the same venue and with the same
\* official difficulty on its side; the strengths of teams 2 and 3 on the side
\* read at that venue are drawn, those of the other side are 1200.
AttackStrengths == {None, Some(0), Some(500), Some(901), Some(1400)}
DefenceStrengths == {None, Some(900), Some(1400)}
OfficialDifficulties == {None, Some(0), Some(1), Some(5)}

OpponentTeam(at_home, attack, defence) ==
  IF at_home THEN Team(Some(1200), Some(1200), attack, defence)
  ELSE Team(attack, defence, Some(1200), Some(1200))

UpcomingFixture(at_home, opponent_id, event, official) ==
  IF at_home THEN Fixture(1, opponent_id, FALSE, event, event, None, None, official, Some(2))
  ELSE Fixture(opponent_id, 1, FALSE, event, event, None, None, Some(2), official)

InitDifficulty ==
  /\ players = NoPlayers
  /\ history = NoHistory
  /\ \E at_home \in BOOLEAN, official \in OfficialDifficulties, e2 \in {1, 2},
        a2 \in AttackStrengths, d2 \in DefenceStrengths,
        a3 \in AttackStrengths, d3 \in DefenceStrengths :
       /\ teams = <<PlainTeam, OpponentTeam(at_home, a2, d2), OpponentTeam(at_home, a3, d3)>>
       /\ fixtures = <<UpcomingFixture(at_home, 2, 1, official),
                       UpcomingFixture(at_home, 3, e2, official)>>
  /\ NoCall

SpecDifficulty == InitDifficulty /\ [][CallFixtureDifficulty]_vars

\* Stores for bogey / favored teams: history rows of player 1 against team
\* 2, team 3 or no recorded opponent, with -2, 2 or missing points.
NoStats == <<Some(0), Some(0), Some(0), Some(0)>>
OpponentHistory ==
  {History(1, 1, o, tp, NoStats) :
     o \in {None, Some(2), Some(3)}, tp \in {None, Some(-2), Some(2)}}

InitOpponents ==
  /\ teams = PlainTeams
  /\ fixtures = NoFixtures
  /\ players = [p \in PlayerIds |-> PlainPlayer]
  /\ history \in SeqsUpTo(OpponentHistory, MaxHistory)
  /\ NoCall

SpecOpponents == InitOpponents /\ [][CallBogeyFavored]_vars

\* Stores for the insights: team 1 has no upcoming fixture, team 2 has the
\* first k of its upcoming fixtures (one per gameweek, home and away in
\* turn); player 1 (a midfielder of team 1) and player 2 (a forward of team
\* 2) are available and have played.
InsightFixture(event, official) ==
  IF event % 2 = 1 THEN Fixture(2, 3, FALSE, event, event, None, None, official, Some(4))
  ELSE Fixture(3, 2, FALSE, event, event, None, None, Some(4), official)

InsightForms == {Some(20), Some(80)}
InsightOwnerships == {Some(50), Some(150)}

InsightHistory ==
  {<<>>, <<History(2, 1, Some(3), Some(9), <<Some(1), Some(1), Some(0), Some(8)>>)>>}

InitInsights ==
  /\ teams = PlainTeams
  /\ \E k \in 0..MaxFixtures, official \in {Some(2), Some(5)} :
       fixtures = [i \in 1..k |-> InsightFixture(i, official)]
  /\ \E f1 \in InsightForms, f2 \in InsightForms, o2 \in InsightOwnerships :
       players = <<Player(1, 3, f1, "a", Some(900), Some(50), Some(50)),
                   Player(2, 4, f2, "a", Some(900), Some(60), o2)>>
  /\ history \in InsightHistory
  /\ NoCall

NextInsights == CallTransferSuggestions \/ CallDifferentials \/ CallFixtureDifficulty

SpecInsights == InitInsights /\ [][NextInsights]_vars

\* Stores with records that share a sort key: two finished fixtures of
\* teams 1 and 2 with the same kickoff time and opposite results, two
\* unfinished fixtures of the same gameweek with different difficulty, two
\* history rows of player 1 in the same gameweek with different points.
TiedFinished ==
  {Fixture(1, 2, TRUE, 1, 1, Some(3), Some(0), Some(2), Some(4)),
   Fixture(1, 2, TRUE, 1, 1, Some(0), Some(3), Some(2), Some(4))}

TiedUpcoming ==
  {Fixture(1, 2, FALSE, 2, 2, None, None, Some(2), Some(4)),
   Fixture(2, 1, FALSE, 2, 2, None, None, Some(2), Some(5))}

TiedHistory ==
  {History(1, 1, Some(2), Some(2), NoStats),
   History(1, 1, Some(3), Some(10), <<Some(1), Some(0), Some(0), Some(8)>>)}

InitAnalysis ==
  /\ teams = PlainTeams
  /\ players = [p \in PlayerIds |-> PlainPlayer]
  /\ \/ fixtures \in SeqsUpTo(TiedFinished, MaxFixtures) /\ history = NoHistory
     \/ fixtures \in SeqsUpTo(TiedUpcoming, MaxFixtures) /\ history = NoHistory
     \/ fixtures = NoFixtures /\ history \in SeqsUpTo(TiedHistory, MaxHistory)
  /\ NoCall

NextAnalysis ==
  \/ CallTeamForm
  \/ CallPlayerForm
  \/ CallFixtureDifficulty
  \/ CallPlayerFixtureDifficulty
  \/ CallBogeyFavored

SpecAnalysis == InitAnalysis /\ [][NextAnalysis]_vars

\* A small season for the whole engine: teams 1 and 2 have met once (2-0)
\* and meet again once per gameweek, the store holding the first k of these
\* fixtures; player 1 may have a history row against team 2.
EngineFixture(i) ==
  IF i = 1 THEN Fixture(1, 2, TRUE, 1, 1, Some(2), Some(0), Some(2), Some(4))
  ELSE Fixture(2, 1, FALSE, i, i, None, None, Some(3), Some(3))

EngineHistory ==
  {<<>>, <<History(1, 1, Some(2), Some(9), <<Some(1), Some(1), Some(0), Some(8)>>)>>}

InitEngine ==
  /\ teams = PlainTeams
  /\ players = <<Player(1, 3, Some(80), "a", Some(900), Some(50), Some(50)),
                 Player(2, 4, Some(20), "a", Some(900), Some(60), Some(150))>>
  /\ \E k \in 0..MaxFixtures : fixtures = [i \in 1..k |-> EngineFixture(i)]
  /\ history \in EngineHistory
  /\ NoCall

\* Stores for the fixture lists: teams 1 and 2 meet once per gameweek, at
\* home in turn, for the first k gameweeks; team 3 has no fixture, or hosts
\* team 1 late in the season.
ListFixture(event) ==
  IF event % 2 = 1 THEN Fixture(1, 2, FALSE, event, event, None, None, Some(3), Some(3))
  ELSE Fixture(2, 1, FALSE, event, event, None, None, Some(3), Some(3))

LateFixture == Fixture(3, 1, FALSE, 9, 9, None, None, Some(2), Some(5))

InitFixtureLists ==
  /\ teams = PlainTeams
  /\ players = NoPlayers
  /\ history = NoHistory
  /\ \E k \in 0..MaxFixtures, late \in BOOLEAN :
       fixtures = [i \in 1..k |-> ListFixture(i)]
                    \o (IF late THEN <<LateFixture>> ELSE <<>>)
  /\ NoCall

NextFixtureLists == CallEasiestFixtures \/ CallHardestFixtures \/ CallFixtureSwings

SpecFixtureLists == InitFixtureLists /\ [][NextFixtureLists]_vars

\* Stores for the ranking of differentials: two available midfielders of
\* team 1, which has no upcoming fixture, with form 0, 5.0 or 8.0 and
\* ownership 0, 0.1, 0.5 or 9.0 percent.
RankForms == {Some(0), Some(50), Some(80)}
RankOwnerships == {Some(0), Some(1), Some(5), Some(90)}

InitDifferentials ==
  /\ teams = PlainTeams
  /\ fixtures = NoFixtures
  /\ history = NoHistory
  /\ \E f1 \in RankForms, f2 \in RankForms, o1 \in RankOwnerships, o2 \in RankOwnerships :
       players = <<Player(1, 3, f1, "a", Some(900), Some(50), o1),
                   Player(1, 3, f2, "a", Some(900), Some(60), o2)>>
  /\ NoCall

SpecDifferentials == InitDifferentials /\ [][CallDifferentials]_vars

\* Stores for the player trend: player 1 has one history row per gameweek
\* for the last k gameweeks, with 2, 7 or 8 points; history[i] is the row of
\* gameweek i.
TrendPoints == {Some(2), Some(7), Some(8)}

InitPlayerTrend ==
  /\ teams = PlainTeams
  /\ fixtures = NoFixtures
  /\ players = [p \in PlayerIds |-> PlainPlayer]
  /\ \E k \in 0..MaxTrendGames :
       \E pts \in [1..k -> TrendPoints] :
         history = [i \in 1..k |-> History(1, i, Some(2), pts[i], NoStats)]
  /\ NoCall

SpecPlayerTrend == InitPlayerTrend /\ [][CallPlayerForm]_vars

\* Stores for the captaincy picks: teams 1 and 2 meet twice in gameweek 1,
\* once at each ground, and then once per gameweek; the store holds the
\* first k of these fixtures.  Player 1 plays for team 1 and player 2 for
\* team 2 or for team 3, which has no fixture.
CaptainFixture(i, official) ==
  IF i = 1 THEN Fixture(1, 2, FALSE, 1, 1, None, None, official, Some(4))
  ELSE IF i = 2 THEN Fixture(2, 1, FALSE, 1, 1, None, None, Some(2), Some(3))
  ELSE Fixture(1, 2, FALSE, i - 1, i - 1, None, None, Some(3), Some(3))

InitCaptaincy ==
  /\ teams = PlainTeams
  /\ history = NoHistory
  /\ \E k \in 0..MaxFixtures, official \in {Some(1), Some(4)} :
       fixtures = [i \in 1..k |-> CaptainFixture(i, official)]
  /\ \E t2 \in {2, 3}, f2 \in {Some(20), Some(80)} :
       players = <<Player(1, 3, Some(80), "a", Some(900), Some(50), Some(50)),
                   Player(t2, 4, f2, "a", Some(900), Some(60), Some(150))>>
  /\ NoCall

SpecCaptaincy == InitCaptaincy /\ [][CallCaptaincyPicks]_vars

\* Stores for the classification: team 1 plays away at teams 2 and 3 in
\* turn, one fixture per gameweek, the first k of them; the home attack
\* strength of the hosts is 1275 or 1278, which with official difficulty 2
\* rates a fixture 4.0 or 4.01 and with official difficulty 3, 6.0 or 6.01.
ThresholdStrengths == {Some(1275), Some(1278)}

InitClassification ==
  /\ players = NoPlayers
  /\ history = NoHistory
  /\ \E a2 \in ThresholdStrengths, a3 \in ThresholdStrengths :
       teams = <<PlainTeam, OpponentTeam(FALSE, a2, Some(900)),
                 OpponentTeam(FALSE, a3, Some(900))>>
  /\ \E k \in 0..MaxFixtures, official \in {Some(2), Some(3)} :
       fixtures = [i \in 1..k |->
                     UpcomingFixture(FALSE, IF i % 2 = 1 THEN 2 ELSE 3, i, official)]
  /\ NoCall

SpecClassification == InitClassification /\ [][CallFixtureDifficulty]_vars

\* Stores for the team trend: team 1 has hosted team 2 in each of the first
\* k gameweeks, every game won, drawn or lost; the score of the second
\* gameweek may never have been recorded.
TrendScores == {<<Some(1), Some(0)>>, <<Some(0), Some(0)>>, <<Some(0), Some(1)>>}

TrendScoresOf(i) == IF i = 2 THEN TrendScores \cup {<<None, None>>} ELSE TrendScores

InitTeamTrend ==
  /\ teams = PlainTeams
  /\ players = NoPlayers
  /\ history = NoHistory
  /\ \E k \in 0..MaxTrendGames :
       \E sc \in [1..k -> TrendScores \cup {<<None, None>>}] :
         /\ \A i \in 1..k : sc[i] \in TrendScoresOf(i)
         /\ fixtures = [i \in 1..k |->
                          Fixture(1, 2, TRUE, i, i, sc[i][1], sc[i][2], Some(3), Some(3))]
  /\ NoCall

SpecTeamTrend == InitTeamTrend /\ [][CallTeamForm]_vars

\* Stores for the player rating: player 1, of any element type, has one
\* history row per gameweek for the last k gameweeks.  A row has no figures
\* at all, or -2 points and 0.8 expected goals, or 8 points, 2 goals, 1
\* assist, 1 clean sheet and 1.5 expected goals.  Point totals are even, so
\* that over up to five rows no rating lies exactly between two hundredths,
\* where the rounding of a binary float can differ from RoundHundredths.
RatingPerformances ==
  {<<None, <<None, None, None, None>>>>,
   <<Some(-2), <<Some(0), Some(0), Some(0), Some(8)>>>>,
   <<Some(8), <<Some(2), Some(1), Some(1), Some(15)>>>>}

InitPlayerRating ==
  /\ teams = PlainTeams
  /\ fixtures = NoFixtures
  /\ \E element_type \in 1..5 :
       players = [p \in PlayerIds |->
                    IF p = 1 THEN Player(1, element_type, Some(55), "a", Some(900), Some(60), Some(150))
                    ELSE PlainPlayer]
  /\ \E k \in 0..MaxRatingGames :
       \E pf \in [1..k -> RatingPerformances] :
         history = [i \in 1..k |-> History(1, i, Some(2), pf[i][1], pf[i][2])]
  /\ NoCall

SpecPlayerRating == InitPlayerRating /\ [][CallPlayerForm]_vars

\* Stores for the rationale of a suggestion: player 1 (a midfielder of team
\* 1) has a season form around the form thresholds 5 and 7 and an ownership
\* around 10 per cent, and may have one history row (9 points, a goal and an
\* assist: rating 8.2); team 1 has no upcoming fixture or hosts team 2
\* (official difficulty 2), whose away attack puts the fixture at 3.0, 4.0,
\* 4.01, 4.5, 5.0 or 5.5.  Player 2 plays for team 2.
RationaleForms == {Some(49), Some(50), Some(70)}
RationaleOwnerships == {Some(0), Some(99), Some(100)}
RationaleAttacks == {1275, 1525, 1528, 1650, 1775, 1900}

RationaleHistory ==
  {<<>>, <<History(1, 1, Some(2), Some(9), <<Some(1), Some(1), Some(0), Some(8)>>)>>}

InitRationale ==
  /\ \E form \in RationaleForms, ownership \in RationaleOwnerships :
       players = <<Player(1, 3, form, "a", Some(900), Some(50), ownership),
                   Player(2, 4, Some(20), "a", Some(900), Some(60), Some(150))>>
  /\ \E attack \in RationaleAttacks :
       teams = <<PlainTeam, Team(Some(1200), Some(1200), Some(attack), Some(900)), PlainTeam>>
  /\ fixtures \in {<<>>, <<Fixture(1, 2, FALSE, 1, 1, None, None, Some(2), Some(4))>>}
  /\ history \in RationaleHistory
  /\ NoCall

SpecRationale == InitRationale /\ [][CallTransferSuggestions]_vars

\* Stores for the fixture swings: two teams; team 1 hosts team 2 in each of
\* the first k gameweeks, with official difficulty 3 or 5 on its side
\* (calculated 4.7 or 8.7); on team 2's side the first two gameweeks are of
\* official difficulty 4 and the later ones of 1 (calculated 8.1 and 2.1),
\* or the other way round.
SwingOfficials == {Some(3), Some(5)}

SwingAwayOfficial(event, easing) == IF (event <= 2) = easing THEN Some(4) ELSE Some(1)

InitSwings ==
  /\ teams = <<PlainTeam, PlainTeam>>
  /\ players = NoPlayers
  /\ history = NoHistory
  /\ \E k \in 0..MaxSwingFixtures, easing \in BOOLEAN :
       \E official \in [1..k -> SwingOfficials] :
         fixtures = [i \in 1..k |->
                       Fixture(1, 2, FALSE, i, i, None, None,
                               official[i], SwingAwayOfficial(i, easing))]
  /\ NoCall

SpecSwings == InitSwings /\ [][CallFixtureSwings]_vars

(***************************************************************************)
(* call_tool (server.py): the dispatcher of the nine registered tools.     *)
(***************************************************************************)
\* server.py lines 45-253: the names of TOOLS, which are the names that
\* lines 265-282 dispatch on.
ToolNames ==
  {"get_player_info", "search_players", "get_team_form",
   "get_fixture_difficulty", "get_transfer_suggestions", "analyze_my_team",
   "get_captaincy_picks", "find_differentials", "check_bogey_teams"}

\* The names a client may send: the registered ones and one that is not.
RequestedToolNames == ToolNames \cup {"get_league_table"}

\* Messages of the failures of the store and of the remote client.
FailureMessages == {"connection refused", "remote source timed out"}
TypeErrorMessage == "unsupported operand type(s) for -: 'float' and 'decimal.Decimal'"

TextContent(text) == [kind |-> "TextContent", text |-> text]

\* What awaiting a handler ends in: a returned text or a raised exception.
Returned(text) == [raised |-> FALSE, value |-> TextContent(text)]
Raised(message) == [raised |-> TRUE, message |-> message]

\* server.py lines 725-749: the entries of the JSON text.
BogeyJson(b) ==
  [opponent |-> b.opponent_id, games |-> b.games_played,
   avg_points |-> b.avg_points, overall_avg |-> b.overall_avg_points,
   difference |-> b.performance_diff, goals |-> b.goals, assists |-> b.assists]

\* handle_check_bogey_teams (server.py lines 705-751) for arguments that
\* carry a player_id or nothing; both analyses run with min_games = 2.
handle_check_bogey_teams(arguments, g1, g2) ==
  IF OrZero(arguments.player_id) = 0 THEN Returned(<<"Player not found.">>)
  ELSE LET player_id == Val(arguments.player_id)
           bogey == Take(find_bogey_teams(player_id, g1), 5)
           favored == Take(find_favored_teams(player_id, g2), 5)
       IN  IF SubtractionRaises(player_id, g1) \/ SubtractionRaises(player_id, g2)
           THEN Raised(TypeErrorMessage)
           ELSE Returned(<<"json",
                  [player_id |-> player_id,
                   bogey_teams |-> [i \in 1..Len(bogey) |-> BogeyJson(bogey[i])],
                   favored_teams |-> [i \in 1..Len(favored) |-> BogeyJson(favored[i])]]>>)

\* The ways a handler can end: the store or the remote client may fail in
\* any handler; check_bogey_teams otherwise ends as computed above, and the
\* other handlers return their text.
HandlerOutcomes(name, arguments, g1, g2) ==
  {Raised(m) : m \in FailureMessages}
    \cup (IF name = "check_bogey_teams"
          THEN {handle_check_bogey_teams(arguments, g1, g2)}
          ELSE {Returned(<<name>>)})

\* The dispatcher without its except clause: what the handler raised leaves
\* call_tool.
call_toolWithoutExcept(name, outcome) ==
  IF name \in ToolNames
  THEN IF outcome.raised THEN [kind |-> "raised", message |-> outcome.message]
       ELSE outcome.value
  ELSE TextContent(<<"Unknown tool: ", name>>)

\* server.py lines 261-286.
call_tool(name, outcome) ==
  IF name \in ToolNames
  THEN IF outcome.raised THEN TextContent(<<"Error: ", outcome.message>>)
       ELSE outcome.value
  ELSE TextContent(<<"Unknown tool: ", name>>)

\* The groups the store returns to the two analyses of check_bogey_teams.
ToolGroups(arguments) ==
  IF OrZero(arguments.player_id) = 0 THEN {<<>>}
  ELSE Perms(OpponentGroups(Val(arguments.player_id), 2))

\* One tool call.  A server whose dispatcher let an exception through takes
\* no further call on that connection (server.py lines 771-777).
CallTool ==
  /\ ret.kind # "raised"
  /\ \E name \in RequestedToolNames,
        player_id \in {None} \cup {Some(p) : p \in QueryPlayerIds} :
       LET arguments == [player_id |-> player_id]
       IN  \E g1 \in ToolGroups(arguments), g2 \in ToolGroups(arguments) :
             \E outcome \in HandlerOutcomes(name, arguments, g1, g2) :
               /\ op' = "call_tool"
               /\ args' = [name |-> name, arguments |-> arguments, outcome |-> outcome]
               /\ fetched' = <<g1, g2>>
               /\ ret' = call_tool(name, outcome)
               /\ UNCHANGED store

\* Stores for the dispatcher: history rows of player 1 against team 2 with
\* -2 or 2 points.
ServerHistory == {History(1, 1, Some(2), tp, NoStats) : tp \in {Some(-2), Some(2)}}

InitServer ==
  /\ teams = PlainTeams
  /\ fixtures = NoFixtures
  /\ players = [p \in PlayerIds |-> PlainPlayer]
  /\ history \in SeqsUpTo(ServerHistory, MaxHistory)
  /\ NoCall

SpecServer == InitServer /\ [][CallTool]_vars

(***************************************************************************)
(* fetch_with_retry (scripts/sync_fpl_data.py), one step per await.        *)
(* fetched holds the position of the call: pc, the loop variable attempt,  *)
(* the outcome of every call of the remote source so far and every wait    *)
(* so far, in seconds.                                                     *)
(***************************************************************************)
MaxRetries == 3

\* What the remote source answers to a successful call: a summary with some
\* number of history rows (fpl_client.py lines 50-54).
Summaries == {[kind |-> "summary", rows |-> n] : n \in 0..2}

Fetching == op = "fetch_with_retry" /\ fetched.pc # "done"

\* sync_fpl_data.py line 232, with its bound moved by one.
RetryFollowsInclusive(attempt, max_retries) == attempt < max_retries

\* sync_fpl_data.py line 232: another attempt follows this failure.
RetryFollows(attempt, max_retries) == attempt < max_retries - 1

\* sync_fpl_data.py line 233.
WaitTime(attempt) == (attempt + 1) * 2

\* sync_player_histories line 263 calls fetch_with_retry; line 228 enters
\* the loop, or line 239 returns None when range(max_retries) is empty.
StartFetch ==
  /\ ~Fetching
  /\ \E player_id \in PlayerIds, max_retries \in 0..MaxRetries :
       /\ op' = "fetch_with_retry"
       /\ args' = [id |-> player_id, max_retries |-> max_retries]
       /\ fetched' = [pc |-> IF max_retries > 0 THEN "attempt" ELSE "done",
                      attempt |-> 0, outcomes |-> <<>>, waits |-> <<>>]
       /\ ret' = IF max_retries > 0 THEN [kind |-> "pending"] ELSE NoneResult
  /\ UNCHANGED store

\* Line 230: the remote source answers and the answer is returned.
AttemptSucceeds ==
  /\ Fetching
  /\ fetched.pc = "attempt"
  /\ \E summary \in Summaries :
       /\ ret' = summary
       /\ fetched' = [fetched EXCEPT !.pc = "done",
                                     !.outcomes = Append(@, "succeeded")]
  /\ UNCHANGED <<op, args, store>>

\* Lines 231-238: the call of the remote source raised.
AttemptFails ==
  /\ Fetching
  /\ fetched.pc = "attempt"
  /\ IF RetryFollows(fetched.attempt, args.max_retries)
     THEN /\ fetched' = [fetched EXCEPT !.pc = "sleep",
                                        !.outcomes = Append(@, "failed"),
                                        !.waits = Append(@, WaitTime(fetched.attempt))]
          /\ ret' = ret
     ELSE /\ fetched' = [fetched EXCEPT !.pc = "done",
                                        !.outcomes = Append(@, "failed")]
          /\ ret' = NoneResult
  /\ UNCHANGED <<op, args, store>>

\* Line 235 returns from the sleep; line 228 takes the next attempt, or
\* line 239 returns None when the range is used up.
SleepEnds ==
  /\ Fetching
  /\ fetched.pc = "sleep"
  /\ IF fetched.attempt + 1 < args.max_retries
     THEN /\ fetched' = [fetched EXCEPT !.pc = "attempt", !.attempt = @ + 1]
          /\ ret' = ret
     ELSE /\ fetched' = [fetched EXCEPT !.pc = "done", !.attempt = @ + 1]
          /\ ret' = NoneResult
  /\ UNCHANGED <<op, args, store>>

NextRetry == StartFetch \/ AttemptSucceeds \/ AttemptFails \/ SleepEnds

SpecRetry == InitServer /\ [][NextRetry]_vars

\* The whole engine over every store above.
Init ==
  \/ InitTeamForm
  \/ InitPlayerForm
  \/ InitDifficulty
  \/ InitOpponents
  \/ InitInsights
  \/ InitAnalysis
  \/ InitFixtureLists
  \/ InitDifferentials
  \/ InitPlayerTrend
  \/ InitCaptaincy
  \/ InitClassification
  \/ InitEngine
  \/ InitTeamTrend
  \/ InitPlayerRating
  \/ InitRationale
  \/ InitSwings
  \/ InitServer

\* The calls of the analytics engine.
NextEngine == NextAnalysis \/ NextInsights \/ NextFixtureLists \/ CallCaptaincyPicks

\* The engine, the dispatcher of the server and the retry loop of the sync
\* script.
Next == NextEngine \/ CallTool \/ NextRetry

Spec == Init /\ [][Next]_vars

SpecEngine == InitEngine /\ [][NextEngine]_vars

(***************************************************************************)
(* Properties.                                                             *)
(***************************************************************************)
IsTeamForm == op = "calculate_team_form" /\ ret.kind = "TeamFormAnalysis"
IsPlayerForm == op = "calculate_player_form" /\ ret.kind = "PlayerFormAnalysis"

\* The unclamped team rating of a returned analysis, as the fraction
\* num / (6 * games): recomputed from the record's own counters.
RawTeamRatingNum == 14 * ret.points + 9 * ret.goals_scored - 3 * ret.goals_conceded

\* C1: every TeamFormAnalysis returned by calculate_team_form has a form
\* rating between 0 and 10 (0 and 1000 hundredths), whatever the results and
\* goals of the window.
C1_TeamFormRatingInRange ==
  IsTeamForm => (0 <= ret.form_rating /\ ret.form_rating <= 1000)

\* C1 witness: an analysis whose unclamped rating exceeds 10 and whose
\* returned rating is exactly 10.
C1_Witness ==
  /\ IsTeamForm
  /\ RawTeamRatingNum > 60 * ret.last_n_games
  /\ ret.form_rating = 1000

\* C2: every PlayerFormAnalysis returned by calculate_player_form has a form
\* rating between 0 and 10, on the history path and on the season fallback.
C2_PlayerFormRatingInRange ==
  IsPlayerForm => (0 <= ret.form_rating /\ ret.form_rating <= 1000)

MissingScore(fid) == IsNone(fixtures[fid].team_h_score) \/ IsNone(fixtures[fid].team_a_score)

\* C9: calculate_team_form returns None when the team has no finished
\* fixture and when none of the selected finished fixtures has both scores;
\* every returned TeamFormAnalysis counts at least one game.
C9_NoGamesNoAnalysis ==
  op = "calculate_team_form" =>
    /\ (FinishedFixturesOf(args.id) = {} => ret = NoneResult)
    /\ ((\A i \in 1..Len(fetched) : MissingScore(fetched[i])) => ret = NoneResult)
    /\ (ret.kind = "TeamFormAnalysis" => ret.last_n_games >= 1)

\* C9 witness: a known team whose selected finished fixtures all lack a
\* score, answered with None.
C9_Witness ==
  /\ op = "calculate_team_form"
  /\ TeamExists(args.id)
  /\ fetched # <<>>
  /\ \A i \in 1..Len(fetched) : MissingScore(fetched[i])
  /\ ret = NoneResult

IsFixtureAnalysis ==
  /\ op \in {"calculate_fixture_difficulty", "get_player_fixture_difficulty"}
  /\ ret.kind = "TeamFixtureAnalysis"

\* What the store holds for a rated fixture r of the analysed team: the
\* official difficulty of the team's own side and the opponent's strengths
\* on the side the venue selects.
StoredOfficial(r) ==
  IF r.is_home THEN fixtures[r.fixture_id].team_h_difficulty
  ELSE fixtures[r.fixture_id].team_a_difficulty
StoredAttack(r) ==
  IF r.is_home THEN teams[r.opponent_id].strength_attack_away
  ELSE teams[r.opponent_id].strength_attack_home
StoredDefence(r) ==
  IF r.is_home THEN teams[r.opponent_id].strength_defence_away
  ELSE teams[r.opponent_id].strength_defence_home
\* A stored value with an absent or zero value read as d.
Effective(x, d) == IF IsNone(x) THEN d ELSE IF Val(x) = 0 THEN d ELSE Val(x)

\* 2*official + ((attack-900)/500 + (defence-900)/500)*2 - 2 -/+ 0.5 in
\* five-hundredths, and its clamp to [1, 10].
FormulaDifficulty(official, attack, defence, is_home) ==
  1000 * official + 2 * (attack - 900) + 2 * (defence - 900) - 1000
    + (IF is_home THEN -250 ELSE 250)
Clamp(lo, hi, x) == IF x < lo THEN lo ELSE IF x > hi THEN hi ELSE x

\* C3: every FixtureDifficultyRating has a calculated difficulty between 1
\* and 10 (100 and 1000 hundredths), whatever the official difficulty, the
\* venue and the opponent's strengths.
C3_DifficultyInRange ==
  IsFixtureAnalysis =>
    \A i \in 1..Len(ret.upcoming_fixtures) :
      /\ 100 <= ret.upcoming_fixtures[i].calculated_difficulty
      /\ ret.upcoming_fixtures[i].calculated_difficulty <= 1000

\* C3 witness: a rating whose unclamped difficulty lies below 1 and whose
\* stored difficulty is exactly 1, for an opponent strength outside the band.
C3_Witness ==
  /\ IsFixtureAnalysis
  /\ \E i \in 1..Len(ret.upcoming_fixtures) :
       LET r == ret.upcoming_fixtures[i]
       IN  /\ ~IsNone(StoredAttack(r))
           /\ Val(StoredAttack(r)) = 500
           /\ FormulaDifficulty(r.fpl_difficulty, r.opponent_attack_strength,
                                 r.opponent_defence_strength, r.is_home) < 500
           /\ r.calculated_difficulty = 100

\* Two ratings of one analysis at the same venue and with the same official
\* difficulty.
Comparable(r1, r2) ==
  /\ r1.is_home = r2.is_home
  /\ StoredOfficial(r1) = StoredOfficial(r2)

\* C6 as stated: of two opponents that differ only in their stored strength
\* values, the one with component-wise greater-or-equal strengths never gets
\* the lower calculated difficulty.
C6_MonotoneInStoredStrengths ==
  IsFixtureAnalysis =>
    \A i, j \in 1..Len(ret.upcoming_fixtures) :
      LET r1 == ret.upcoming_fixtures[i]
          r2 == ret.upcoming_fixtures[j]
      IN  (/\ Comparable(r1, r2)
           /\ ~IsNone(StoredAttack(r1)) /\ ~IsNone(StoredAttack(r2))
           /\ ~IsNone(StoredDefence(r1)) /\ ~IsNone(StoredDefence(r2))
           /\ Val(StoredAttack(r1)) <= Val(StoredAttack(r2))
           /\ Val(StoredDefence(r1)) <= Val(StoredDefence(r2)))
          => r1.calculated_difficulty <= r2.calculated_difficulty

\* C6 amended: monotone in the strengths the code reads, an absent or zero
\* stored strength being read as 1000.
C6_MonotoneInEffectiveStrengths ==
  IsFixtureAnalysis =>
    \A i, j \in 1..Len(ret.upcoming_fixtures) :
      LET r1 == ret.upcoming_fixtures[i]
          r2 == ret.upcoming_fixtures[j]
      IN  (/\ Comparable(r1, r2)
           /\ Effective(StoredAttack(r1), 1000) <= Effective(StoredAttack(r2), 1000)
           /\ Effective(StoredDefence(r1), 1000) <= Effective(StoredDefence(r2), 1000))
          => r1.calculated_difficulty <= r2.calculated_difficulty

\* C6 witness: two comparable ratings, the second opponent stronger in attack
\* and in defence, and rated strictly harder.
C6_Witness ==
  /\ IsFixtureAnalysis
  /\ \E i, j \in 1..Len(ret.upcoming_fixtures) :
       LET r1 == ret.upcoming_fixtures[i]
           r2 == ret.upcoming_fixtures[j]
       IN  /\ Comparable(r1, r2)
           /\ Effective(StoredAttack(r1), 1000) < Effective(StoredAttack(r2), 1000)
           /\ Effective(StoredDefence(r1), 1000) < Effective(StoredDefence(r2), 1000)
           /\ r1.calculated_difficulty < r2.calculated_difficulty

\* C7 as stated: the calculated difficulty equals the clamped formula over
\* the official difficulty (3 when absent) and the opponent's stored
\* strengths on the side the venue selects (checked where they are present).
C7_DifficultyEqualsFormula ==
  IsFixtureAnalysis =>
    \A i \in 1..Len(ret.upcoming_fixtures) :
      LET r == ret.upcoming_fixtures[i]
          official == IF IsNone(StoredOfficial(r)) THEN 3 ELSE Val(StoredOfficial(r))
      IN  (~IsNone(StoredAttack(r)) /\ ~IsNone(StoredDefence(r))) =>
            5 * r.calculated_difficulty =
              Clamp(500, 5000, FormulaDifficulty(official, Val(StoredAttack(r)),
                                                 Val(StoredDefence(r)), r.is_home))

\* C7 amended: the calculated difficulty is the clamped formula rounded to
\* two decimals, over the official difficulty (3 when absent or 0) and the
\* stored strengths (1000 when absent or 0).
C7_DifficultyEqualsRoundedFormula ==
  IsFixtureAnalysis =>
    \A i \in 1..Len(ret.upcoming_fixtures) :
      LET r == ret.upcoming_fixtures[i]
      IN  r.calculated_difficulty =
            RoundHundredths(
              Clamp(500, 5000,
                    FormulaDifficulty(Effective(StoredOfficial(r), 3),
                                      Effective(StoredAttack(r), 1000),
                                      Effective(StoredDefence(r), 1000), r.is_home)),
              500)

\* C7 witness: official difficulty 5, away, opponent attack = defence = 1400
\* rated exactly 10, next to a rating whose formula value has a third decimal.
C7_Witness ==
  /\ IsFixtureAnalysis
  /\ \E i, j \in 1..Len(ret.upcoming_fixtures) :
       LET r == ret.upcoming_fixtures[i]
           q == ret.upcoming_fixtures[j]
       IN  /\ ~r.is_home
           /\ StoredOfficial(r) = Some(5)
           /\ StoredAttack(r) = Some(1400)
           /\ StoredDefence(r) = Some(1400)
           /\ r.calculated_difficulty = 1000
           /\ StoredAttack(q) = Some(901)
           /\ StoredDefence(q) = Some(900)
           /\ q.calculated_difficulty = 850

IsBogeyFavored == op = "find_bogey_favored"
OpponentsIn(results) == {results[i].opponent_id : i \in 1..Len(results)}

\* C8: for any player and min_games, no opponent is both in the result of
\* find_bogey_teams and in the result of find_favored_teams on one snapshot.
C8_BogeyFavoredDisjoint ==
  IsBogeyFavored => OpponentsIn(ret.bogey) \cap OpponentsIn(ret.favored) = {}

\* C8 witness: a player with a bogey team and a favored team.
C8_Witness ==
  /\ IsBogeyFavored
  /\ ret.bogey # <<>>
  /\ ret.favored # <<>>

\* The aggregate difficulty scale of the specification, in hundredths.
InAggregateRange(d) == 100 <= d /\ d <= 1000

IsInsightList ==
  op \in {"generate_transfer_suggestions", "find_differentials"} /\ ret.kind = "list"

\* C4: every aggregate difficulty the engine emits lies in [1,10]: the
\* avg_difficulty of every returned TeamFixtureAnalysis, also for a team
\* without upcoming fixtures, and the fixture_difficulty of every
\* TransferSuggestion and DifferentialPlayer.
C4_AggregateDifficultyInRange ==
  /\ (op = "calculate_fixture_difficulty" /\ ret.kind = "TeamFixtureAnalysis"
        => InAggregateRange(ret.avg_difficulty))
  /\ (IsInsightList
        => \A i \in 1..Len(ret.items) : InAggregateRange(ret.items[i].fixture_difficulty))

\* C5: two consecutive calls of calculate_team_form, calculate_player_form
\* or calculate_fixture_difficulty with the same arguments on the same
\* store return the same result.
C5_SameCallSameResult ==
  [][(/\ op \in {"calculate_team_form", "calculate_player_form",
                  "calculate_fixture_difficulty"}
      /\ op' = op /\ args' = args /\ store' = store)
     => ret' = ret]_vars

\* C10: a call with an identifier that does not resolve returns None
\* (the four analyses) or two empty lists (bogey and favored teams), and
\* never a record.
C10_UnknownIdYieldsNothing ==
  /\ (op \in {"calculate_team_form", "calculate_fixture_difficulty"}
        /\ ~TeamExists(args.id) => ret = NoneResult)
  /\ (op \in {"calculate_player_form", "get_player_fixture_difficulty"}
        /\ ~PlayerExists(args.id) => ret = NoneResult)
  /\ (op = "find_bogey_favored" /\ ~PlayerExists(args.id)
        => ret.bogey = <<>> /\ ret.favored = <<>>)

\* C10 witness: calculate_fixture_difficulty was called for a team that is
\* not in a store that holds unfinished fixtures, and returned None.
C10_Witness ==
  /\ op = "calculate_fixture_difficulty"
  /\ ~TeamExists(args.id)
  /\ \E i \in DOMAIN fixtures : ~fixtures[i].finished
  /\ ret = NoneResult

IsFixtureList ==
  op \in {"get_easiest_fixtures", "get_hardest_fixtures"} /\ ret.kind = "list"

\* The full easiest list of the rows the store returned to the last call.
FullEasiestOfFetched ==
  get_easiest_fixtures(fetched.teams, fetched.fixtures, Cardinality(DOMAIN teams))

IsDifferentials == op = "find_differentials" /\ ret.kind = "list"

\* a's differential score form / max(ownership, 0.1) is at least b's.
ScoreAtLeast(a, b) ==
  a.form * Max(b.ownership, 1) >= b.form * Max(a.ownership, 1)

\* C12 as stated: the list of find_differentials is ordered by
\* non-increasing score form / max(ownership, 0.1), and of two returned
\* players with equal form the one with the lower ownership comes
\* strictly earlier.
C12_LowerOwnershipFirst ==
  IsDifferentials =>
    \A i, j \in 1..Len(ret.items) :
      /\ (i < j => ScoreAtLeast(ret.items[i], ret.items[j]))
      /\ (/\ ret.items[i].form = ret.items[j].form
          /\ ret.items[i].ownership < ret.items[j].ownership
          => i < j)

\* C12 amended: the list is ordered by non-increasing score, and of two
\* returned players with equal positive form and different ownership, the
\* higher of which is above 0.1 percent, the one with the lower ownership
\* comes strictly earlier.
C12_DifferentialsByScore ==
  IsDifferentials =>
    \A i, j \in 1..Len(ret.items) :
      /\ (i < j => ScoreAtLeast(ret.items[i], ret.items[j]))
      /\ (/\ ret.items[i].form = ret.items[j].form
          /\ ret.items[i].form > 0
          /\ ret.items[i].ownership < ret.items[j].ownership
          /\ ret.items[j].ownership > 1
          => i < j)

\* C12 witness: two returned players of form 5.0, the first owned by 0.5
\* percent and the second by 9 percent, whom the store returned in the
\* other order.
C12_Witness ==
  /\ IsDifferentials
  /\ Len(ret.items) = 2
  /\ ret.items[1].form = 50 /\ ret.items[2].form = 50
  /\ ret.items[1].ownership = 5 /\ ret.items[2].ownership = 90
  /\ fetched[1] = <<ret.items[2].player_id, ret.items[1].player_id>>

\* The per-game points of a returned player analysis, most recent first.
PerformancePoints == [i \in 1..Len(ret.recent_performances) |->
                        OrZero(ret.recent_performances[i].points)]

\* The sum of the k div 2 most recent games of a window minus the sum of
\* its earlier games.
RecentMinusEarlier(points) ==
  SumSeq(Take(points, Len(points) \div 2)) - SumSeq(Drop(points, Len(points) \div 2))

\* C13: the rows of a returned player analysis are the window, most recent
\* gameweek first; with k >= 3 rows the trend is improving iff the more
\* recent half (the k div 2 most recent rows) outscores the earlier rows
\* by more than 5, declining iff it falls short by more than 5, otherwise
\* stable; with k < 3 it is stable.
C13_PlayerTrend ==
  IsPlayerForm /\ ret.last_n_games > 0 =>
    LET k == ret.last_n_games
        diff == RecentMinusEarlier(PerformancePoints)
    IN  /\ k = Len(ret.recent_performances)
        /\ \A i, j \in 1..k :
              i < j => ret.recent_performances[i].event >= ret.recent_performances[j].event
        /\ (k < 3 => ret.trend = "stable")
        /\ (k >= 3 => /\ (ret.trend = "improving" <=> diff > 5)
                       /\ (ret.trend = "declining" <=> diff < -5)
                       /\ (ret.trend = "stable" <=> (-5 <= diff /\ diff <= 5)))

\* C13 witness: the four most recent games scored 2, 2, 8, 8 from oldest to
\* newest and the trend is improving.
C13_Witness ==
  /\ IsPlayerForm
  /\ ret.last_n_games = 4
  /\ PerformancePoints = <<8, 8, 2, 2>>
  /\ ret.trend = "improving"

IsSuggestions == op = "generate_transfer_suggestions" /\ ret.kind = "list"

\* C14: the list of generate_transfer_suggestions has at most `limit`
\* entries and is ordered by ascending priority and, within a priority, by
\* non-increasing expected_points.
C14_SuggestionsOrdered ==
  IsSuggestions =>
    /\ Len(ret.items) <= args.limit
    /\ \A i, j \in 1..Len(ret.items) :
          i < j => \/ ret.items[i].priority < ret.items[j].priority
                   \/ /\ ret.items[i].priority = ret.items[j].priority
                      /\ ret.items[i].expected_points >= ret.items[j].expected_points

\* C14 witness: two suggestions of the same priority, the first with more
\* expected points, built from candidates the store returned in the other
\* order.
C14_Witness ==
  /\ IsSuggestions
  /\ Len(ret.items) = 2
  /\ ret.items[1].priority = ret.items[2].priority
  /\ ret.items[1].expected_points > ret.items[2].expected_points
  /\ fetched[1] = <<ret.items[2].player_id, ret.items[1].player_id>>

IsCaptaincy == op = "get_captaincy_picks" /\ ret.kind = "list"

\* The unfinished fixtures of a team in its earliest gameweek with one.
NextFixturesOf(team_id) ==
  {fid \in UnfinishedFixturesOf(team_id) :
     \A other \in UnfinishedFixturesOf(team_id) : FixtureEvent(fid) <= FixtureEvent(other)}

\* pick's score is form * (10 - d) / 10, times 1.1 at home, for the next
\* fixture fid of its team.
ScoreIsOfFixture(pick, fid) ==
  LET next == RateFixture(fid, pick.team_id)
      form == OrZero(players[pick.player_id].form)
  IN  /\ pick.fixture_difficulty = next.calculated_difficulty
      /\ pick.form_rating.den = 100000
      /\ pick.form_rating.num =
           form * (1000 - next.calculated_difficulty) * (IF next.is_home THEN 11 ELSE 10)

C16_RatingMatchesRecord ==
  IsFixtureAnalysis =>
    /\ (ret.difficulty_rating = "unknown" <=> ret.upcoming_fixtures = <<>>)
    /\ (ret.upcoming_fixtures # <<>> =>
          /\ (ret.difficulty_rating = "easy" <=> ret.avg_difficulty <= 400)
          /\ (ret.difficulty_rating = "moderate" <=>
                (400 < ret.avg_difficulty /\ ret.avg_difficulty <= 600))
          /\ (ret.difficulty_rating = "hard" <=> ret.avg_difficulty > 600))

\* C17: no analysis operation changes the store: teams, players, fixtures
\* and history rows are the same after every call as before it.
C17_StoreUnchanged == [][store' = store]_vars

\* C17 witness: an operation has returned a non-empty result on a store
\* that holds fixtures and history rows.
C17_Witness ==
  /\ op = "generate_transfer_suggestions"
  /\ ret.items # <<>>
  /\ fixtures # <<>>
  /\ history # <<>>

\* The selected fixtures of the last calculate_team_form call that have both
\* scores, most recent first, and the points the team took from each.
HasBothScores(fid) ==
  /\ ~IsNone(fixtures[fid].team_h_score)
  /\ ~IsNone(fixtures[fid].team_a_score)

CountedFixtures == SelectSeq(fetched, HasBothScores)

MatchPoints(fid, team_id) ==
  LET fixture == fixtures[fid]
      is_home == fixture.team_h = team_id
      team_score == Val(IF is_home THEN fixture.team_h_score ELSE fixture.team_a_score)
      opp_score == Val(IF is_home THEN fixture.team_a_score ELSE fixture.team_h_score)
  IN  IF team_score > opp_score THEN 3 ELSE IF team_score = opp_score THEN 1 ELSE 0

CountedPoints == [i \in 1..Len(CountedFixtures) |-> MatchPoints(CountedFixtures[i], args.id)]

\* Points of the Len \div 2 most recent counted games minus points of the
\* remaining, earlier counted games.
TeamRecentMinusEarlier ==
  LET half == Len(CountedPoints) \div 2
  IN  SumSeq(Take(CountedPoints, half)) - SumSeq(Drop(CountedPoints, half))

\* C18: a returned team analysis over k counted games (selected fixtures with
\* both scores) has, for k >= 3, trend "improving" iff the more recent half
\* (the k div 2 most recent counted games) earned more than 2 points more
\* than the earlier half (the remaining counted games), "declining" iff the
\* earlier half earned more than 2 points more than the more recent half,
\* and "stable" otherwise; for k < 3 the trend is "stable".
C18_TeamTrend ==
  IsTeamForm =>
    /\ ret.last_n_games = Len(CountedFixtures)
    /\ ret.trend \in {"improving", "declining", "stable"}
    /\ Len(CountedFixtures) < 3 => ret.trend = "stable"
    /\ Len(CountedFixtures) >= 3 =>
         /\ ret.trend = "improving" <=> TeamRecentMinusEarlier > 2
         /\ ret.trend = "declining" <=> TeamRecentMinusEarlier < -2

\* C18 witness: four fixtures selected, one without a score; of the three
\* counted games the most recent was won and the two before it lost.
C18_Witness ==
  /\ IsTeamForm
  /\ Len(fetched) = 4
  /\ CountedPoints = <<3, 0, 0>>
  /\ ret.trend = "improving"

\* C19 as stated, for calculate_team_form: a returned team analysis whose
\* counted games all yielded the same number of points has trend "stable".
C19_ConstantWindowStable ==
  (/\ IsTeamForm
   /\ \A i, j \in DOMAIN CountedPoints : CountedPoints[i] = CountedPoints[j])
    => ret.trend = "stable"

\* The scores of a counted fixture from the side of the team.
TeamScoreOf(fid, team_id) ==
  Val(IF fixtures[fid].team_h = team_id THEN fixtures[fid].team_h_score
      ELSE fixtures[fid].team_a_score)

OppScoreOf(fid, team_id) ==
  Val(IF fixtures[fid].team_h = team_id THEN fixtures[fid].team_a_score
      ELSE fixtures[fid].team_h_score)

CountedIndices == DOMAIN CountedFixtures

CountedTeamScores == [i \in CountedIndices |-> TeamScoreOf(CountedFixtures[i], args.id)]
CountedOppScores == [i \in CountedIndices |-> OppScoreOf(CountedFixtures[i], args.id)]

\* The selected fixtures are the (at most last_n_games) most recent
\* finished fixtures of the team, most recent first.
WindowIsMostRecent ==
  /\ Len(fetched) = Min(args.n, Cardinality(FinishedFixturesOf(args.id)))
  /\ \A i \in DOMAIN fetched : fetched[i] \in FinishedFixturesOf(args.id)
  /\ \A i, j \in DOMAIN fetched :
       i < j => fetched[i] # fetched[j] /\ KickoffTime(fetched[i]) >= KickoffTime(fetched[j])
  /\ \A fid \in FinishedFixturesOf(args.id) :
       (\A i \in DOMAIN fetched : fetched[i] # fid) =>
         \A i \in DOMAIN fetched : KickoffTime(fetched[i]) >= KickoffTime(fid)

\* C20: a returned team analysis accounts for exactly the fixtures with both
\* scores among the at most last_n_games most recent finished fixtures of
\* the team: recent_results lists those fixtures and no other, wins + draws
\* + losses = last_n_games = Len(recent_results) <= the requested
\* last_n_games, points = 3*wins + draws = the sum of the per-game points,
\* clean_sheets = the number of counted games the opponent scored 0 in, and
\* goals_scored / goals_conceded are the sums over the counted games.
C20_TeamFormAccounting ==
  IsTeamForm =>
    /\ WindowIsMostRecent
    /\ [i \in DOMAIN ret.recent_results |-> ret.recent_results[i].fixture_id] = CountedFixtures
    /\ ret.wins + ret.draws + ret.losses = ret.last_n_games
    /\ ret.last_n_games = Len(ret.recent_results)
    /\ ret.last_n_games <= args.n
    /\ ret.wins = Cardinality({i \in CountedIndices : CountedTeamScores[i] > CountedOppScores[i]})
    /\ ret.draws = Cardinality({i \in CountedIndices : CountedTeamScores[i] = CountedOppScores[i]})
    /\ ret.losses = Cardinality({i \in CountedIndices : CountedTeamScores[i] < CountedOppScores[i]})
    /\ ret.points = 3 * ret.wins + ret.draws
    /\ ret.points = SumSeq([i \in DOMAIN ret.recent_results |-> ret.recent_results[i].points])
    /\ ret.points = SumSeq(CountedPoints)
    /\ ret.clean_sheets = Cardinality({i \in CountedIndices : CountedOppScores[i] = 0})
    /\ ret.clean_sheets <= ret.last_n_games
    /\ ret.goals_scored = SumSeq(CountedTeamScores)
    /\ ret.goals_conceded = SumSeq(CountedOppScores)

\* C20 witness: two fixtures requested and selected, the older of them
\* without a score, while an older fixture with both scores stays outside
\* the window; the record counts one game.
C20_Witness ==
  /\ IsTeamForm
  /\ args.n = 2
  /\ Len(fetched) = 2
  /\ ~HasBothScores(fetched[2])
  /\ ret.last_n_games = 1
  /\ \E fid \in FinishedFixturesOf(args.id) :
       /\ HasBothScores(fid)
       /\ \A i \in DOMAIN fetched : fetched[i] # fid

\* The totals of the selected history rows of the last calculate_player_form
\* call, a missing figure counted as 0.
WindowTotal(field) ==
  SumSeq([i \in DOMAIN fetched |-> OrZero(history[fetched[i]][field])])

\* The position formulas as fractions over 100 * rows (expected goals are
\* stored in tenths): avg_points = total points / rows.
GoalkeeperFormula ==
  120 * WindowTotal("total_points") + 50 * WindowTotal("clean_sheets") * Len(fetched)

DefenderFormula ==
  100 * WindowTotal("total_points") + 50 * WindowTotal("clean_sheets") * Len(fetched)
    + 30 * (WindowTotal("goals_scored") + WindowTotal("assists")) * Len(fetched)

MidfielderFormula ==
  80 * WindowTotal("total_points")
    + 50 * (WindowTotal("goals_scored") + WindowTotal("assists")) * Len(fetched)

ForwardFormula ==
  70 * WindowTotal("total_points") + 80 * WindowTotal("goals_scored") * Len(fetched)
    + 2 * Max(0, WindowTotal("expected_goals") - 10 * WindowTotal("goals_scored")) * Len(fetched)

PositionFormula ==
  CASE players[args.id].element_type = 1 -> GoalkeeperFormula
    [] players[args.id].element_type = 2 -> DefenderFormula
    [] players[args.id].element_type = 3 -> MidfielderFormula
    [] players[args.id].element_type = 4 -> ForwardFormula

ClampedPositionFormula == Max(0, Min(1000 * Len(fetched), PositionFormula))

RatedByPosition ==
  /\ IsPlayerForm
  /\ fetched # <<>>
  /\ players[args.id].element_type \in 1..4

\* C21 as stated: with history rows, the form rating of a player of one of
\* the four positions equals the position formula clamped to [0,10].
C21_RatingEqualsFormula ==
  RatedByPosition =>
    ret.form_rating * 100 * Len(fetched) = 100 * ClampedPositionFormula

\* C21 amended: with history rows, the form rating of a player of one of the
\* four positions is the position formula over the window totals (missing
\* figures counted as 0), clamped to [0,10] and rounded to two decimals.
C21_RatingEqualsRoundedFormula ==
  RatedByPosition =>
    /\ ret.last_n_games = Len(fetched)
    /\ ret.form_rating = RoundHundredths(ClampedPositionFormula, 100 * Len(fetched))
    /\ 0 <= ret.form_rating /\ ret.form_rating <= 1000

\* C21 witness: a forward over three rows with 4 points, 2 goals and 3.1
\* expected goals: 0.7 * 4/3 + 0.8 * 2 + 0.2 * 1.1 = 2.7533..., rated 2.75.
C21_Witness ==
  /\ RatedByPosition
  /\ ret.position = "FWD"
  /\ Len(fetched) = 3
  /\ WindowTotal("total_points") = 4
  /\ WindowTotal("expected_goals") = 31
  /\ ret.form_rating = 275

\* The positions of the rated fixtures of a returned analysis at or below a
\* difficulty, and at or above one (in hundredths).
RatedAtMost(d) ==
  {i \in DOMAIN ret.upcoming_fixtures : ret.upcoming_fixtures[i].calculated_difficulty <= d}

RatedAtLeast(d) ==
  {i \in DOMAIN ret.upcoming_fixtures : ret.upcoming_fixtures[i].calculated_difficulty >= d}

HighPriority(sg) == sg.form_rating >= 700 /\ sg.fixture_difficulty <= 400

MediumPriority(sg) ==
  /\ ~HighPriority(sg)
  /\ sg.form_rating >= 500
  /\ sg.fixture_difficulty <= 500

\* C23: every suggestion has priority 1 iff its form rating is >= 7 and its
\* fixture difficulty <= 4, priority 2 iff it is not priority 1 and its form
\* rating is >= 5 and its fixture difficulty <= 5, and priority 3 otherwise.
C23_PriorityTiers ==
  IsSuggestions =>
    \A i \in DOMAIN ret.items :
      /\ ret.items[i].priority \in {1, 2, 3}
      /\ ret.items[i].priority = 1 <=> HighPriority(ret.items[i])
      /\ ret.items[i].priority = 2 <=> MediumPriority(ret.items[i])

\* C23 witness: a suggestion of form rating 7.0 whose fixture difficulty 4.5
\* is above 4 and not above 5: priority 2.
C23_Witness ==
  /\ IsSuggestions
  /\ \E i \in DOMAIN ret.items :
       /\ ret.items[i].form_rating = 700
       /\ ret.items[i].fixture_difficulty = 450
       /\ ret.items[i].priority = 2

\* The phrases of a suggestion's reason (joined by ", " in the record).
Mentions(sg, phrase) == \E i \in DOMAIN sg.reason : sg.reason[i] = phrase

\* A qualifying reason applies to the suggestion: a form tier, a fixture
\* ease tier, or an ownership that is stored, not 0 and below 10 per cent.
HasQualifyingReason(sg) ==
  \/ sg.form_rating >= 500
  \/ sg.fixture_difficulty <= 450
  \/ (sg.ownership # 0 /\ sg.ownership < 100)

AvailableAndPlayed(pid) ==
  /\ players[pid].status = "a"
  /\ ~IsNone(players[pid].minutes)
  /\ Val(players[pid].minutes) > 0

\* The stored player is within a supplied budget ceiling (any number, in
\* tenths) and has a supplied position code.
WithinSuppliedBudget(pid) ==
  ~IsNone(args.budget) =>
    (~IsNone(players[pid].now_cost) /\ Val(players[pid].now_cost) <= Val(args.budget))

HasSuppliedPosition(pid) ==
  ~IsNone(args.position) => players[pid].element_type = Val(args.position)

\* C25 as stated: every returned player is available and has played, costs
\* no more than a supplied budget (0 included), has a supplied position and
\* is outside a supplied exclusion list; a differential also has ownership
\* <= max_ownership and form >= min_form.
C25_FilterSoundness ==
  /\ IsSuggestions =>
       \A i \in DOMAIN ret.items :
         LET pid == ret.items[i].player_id
         IN  /\ AvailableAndPlayed(pid)
             /\ WithinSuppliedBudget(pid)
             /\ HasSuppliedPosition(pid)
             /\ ~IsNone(args.exclude) => pid \notin Val(args.exclude)
  /\ IsDifferentials =>
       \A i \in DOMAIN ret.items :
         LET pid == ret.items[i].player_id
         IN  /\ AvailableAndPlayed(pid)
             /\ WithinSuppliedBudget(pid)
             /\ HasSuppliedPosition(pid)
             /\ ~IsNone(players[pid].selected_by_percent)
             /\ Val(players[pid].selected_by_percent) <= args.max_ownership
             /\ ~IsNone(players[pid].form)
             /\ Val(players[pid].form) >= args.min_form

\* C26 as stated: when get_captaincy_picks is given a set of player
\* identifiers (the empty one included) every pick is a member of it; when
\* none is given every pick is an available player who has played.
C26_PicksFromGivenSquad ==
  IsCaptaincy =>
    \A i \in DOMAIN ret.items :
      IF IsNone(args.team_player_ids)
      THEN AvailableAndPlayed(ret.items[i].player_id)
      ELSE ret.items[i].player_id \in Val(args.team_player_ids)

IsSwings == op = "identify_fixture_swings" /\ ret.kind = "swings"

\* The rated fixtures of a team in the last identify_fixture_swings call.
SwingRated(team_id) == RateFixtures(fetched.fixtures[team_id], team_id)

\* delta = average difficulty of the first floor(n/2) rated fixtures minus
\* that of the remaining ones, as the fraction num / den of hundredths.
SwingDelta(rated) ==
  LET n1 == Len(rated) \div 2
      n2 == Len(rated) - n1
  IN  [num |-> SumDifficulty(Take(rated, n1)) * n2 - SumDifficulty(Drop(rated, n1)) * n1,
       den |-> n1 * n2]

ListedIn(list, team_id) == {i \in DOMAIN list : list[i].team_id = team_id}

\* The lists of a returned result say of one team what its rated fixtures
\* require.
SwingOfTeamCorrect(team_id) ==
  LET rated == SwingRated(team_id)
      delta == SwingDelta(rated)
      imp == ListedIn(ret.improving, team_id)
      wor == ListedIn(ret.worsening, team_id)
  IN  /\ Cardinality(imp) <= 1
      /\ Cardinality(wor) <= 1
      /\ imp = {} \/ wor = {}
      /\ Len(rated) < 4 => (imp = {} /\ wor = {})
      /\ Len(rated) >= 4 =>
           /\ imp # {} <=> delta.num > 200 * delta.den
           /\ wor # {} <=> delta.num < -(200 * delta.den)
           /\ \A i \in imp :
                ret.improving[i].change = RoundHundredths(delta.num, 100 * delta.den)
           /\ \A i \in wor :
                ret.worsening[i].change = RoundHundredths(delta.num, 100 * delta.den)

FacedAtLeast(team_id, n) ==
  /\ GroupRows(args.id, Some(team_id)) # {}
  /\ Cardinality(GroupRows(args.id, Some(team_id))) >= n

Deviation(team_id) == PerformanceDiff(args.id, Some(team_id))

BogeyOpponents ==
  {t \in DOMAIN teams : FacedAtLeast(t, args.n) /\ IsBogey(Deviation(t))}

FavoredOpponents ==
  {t \in DOMAIN teams : FacedAtLeast(t, args.n) /\ IsFavored(Deviation(t))}

ListsAsSpecified ==
  /\ OpponentsIn(ret.bogey) = BogeyOpponents
  /\ Len(ret.bogey) = Cardinality(BogeyOpponents)
  /\ OpponentsIn(ret.favored) = FavoredOpponents
  /\ Len(ret.favored) = Cardinality(FavoredOpponents)
  /\ \A i, j \in DOMAIN ret.bogey :
       i < j => ret.bogey[i].performance_diff <= ret.bogey[j].performance_diff
  /\ \A i, j \in DOMAIN ret.favored :
       i < j => ret.favored[i].performance_diff >= ret.favored[j].performance_diff

\* C28: find_bogey_teams returns exactly the resolvable opponents faced in
\* at least min_games rows whose average against that opponent minus the
\* overall average is below -1.0, by non-decreasing deviation, and
\* find_favored_teams exactly those above +1.0, by non-increasing deviation;
\* an opponent with fewer than min_games rows is in neither list.
C28_BogeyFavoredLists ==
  IsBogeyFavored /\ PlayerExists(args.id) =>
    /\ ~ret.bogey_raised
    /\ ~ret.favored_raised
    /\ ListsAsSpecified

\* The same for the calls in which the subtraction of the overall average
\* from the opponent average did not raise.
BogeyFavoredListsUnlessRaised ==
  IsBogeyFavored /\ PlayerExists(args.id) /\ ~ret.bogey_raised /\ ~ret.favored_raised
    => ListsAsSpecified

(***************************************************************************)
(* The dispatcher.                                                         *)
(***************************************************************************)
IsToolCall == op = "call_tool"

\* C29: call_tool never lets an exception through: for every tool name and
\* arguments and every failure of a handler, the store or the remote client
\* it returns a text, 'Unknown tool: <name>' for a name that is not one of
\* the nine tools and 'Error: <message>' when the handler raised, and the
\* server takes further calls.
C29_DispatcherNeverRaises ==
  /\ Cardinality(ToolNames) = 9
  /\ ENABLED CallTool
  /\ IsToolCall =>
       /\ ret.kind = "TextContent"
       /\ args.name \notin ToolNames => ret.text = <<"Unknown tool: ", args.name>>
       /\ args.name \in ToolNames /\ args.outcome.raised
            => ret.text = <<"Error: ", args.outcome.message>>
       /\ args.name \in ToolNames /\ ~args.outcome.raised
            => ret = args.outcome.value

\* C29 witness: check_bogey_teams raised the TypeError of the subtraction
\* and the client received it as a text.
C29_Witness ==
  /\ IsToolCall
  /\ args.name = "check_bogey_teams"
  /\ args.outcome = Raised(TypeErrorMessage)
  /\ ret = TextContent(<<"Error: ", TypeErrorMessage>>)

(***************************************************************************)
(* The retry loop.                                                         *)
(***************************************************************************)
IsFetch == op = "fetch_with_retry"
FetchDone == IsFetch /\ fetched.pc = "done"
Attempts == Len(fetched.outcomes)
AllFailed == \A i \in 1..Attempts : fetched.outcomes[i] = "failed"

\* What holds of every call for any max_retries: at most max_retries calls
\* of the remote source, none after a success, the first success returned,
\* None iff all max_retries attempts failed, nothing raised, and a wait of
\* 2*i seconds after the i-th failure.
RetryAccounting ==
  IsFetch =>
    /\ Attempts <= args.max_retries
    /\ \A i \in 1..Attempts : fetched.outcomes[i] = "succeeded" => i = Attempts /\ FetchDone
    /\ ret.kind \in {"pending", "None", "summary"}
    /\ ret.kind = "pending" <=> ~FetchDone
    /\ FetchDone => (ret = NoneResult <=> Attempts = args.max_retries /\ AllFailed)
    /\ FetchDone /\ ~AllFailed => ret \in Summaries
    /\ \A i \in 1..Len(fetched.waits) : fetched.waits[i] = 2 * i
    /\ Len(fetched.waits) <= Attempts
    /\ \A i \in 1..Len(fetched.waits) : fetched.outcomes[i] = "failed"

====
